---- MODULE Spec2Model ----
(***************************************************************************)
(* RetroGrade: the Applesoft BASIC toolchain (tokenizer, parser,           *)
(* interpreter) as a state machine.                                        *)
(*                                                                         *)
(* Strings are indexed from 0 as in the JavaScript source: CharAt(s, pos)   *)
(* is s[pos].  A JavaScript value that can have more than one type is a    *)
(* tagged record: a number is an exact rational                            *)
(* [t |-> "num", n, d], a string is [t |-> "str", s], null/undefined are   *)
(* [t |-> "null"] and NaN is [t |-> "nan"].                                *)
(***************************************************************************)
EXTENDS Integers, Sequences, FiniteSets, TLC

(***************************************************************************)
(* JavaScript values                                                       *)
(***************************************************************************)
Abs(i) == IF i < 0 THEN -i ELSE i

RECURSIVE Gcd(_, _)
Gcd(a, b) == IF b = 0 THEN a ELSE Gcd(b, a % b)

\* a number n/d in lowest terms with a positive denominator
NumV(n, d) ==
  LET g == Gcd(Abs(n), Abs(d))
      s == IF d < 0 THEN -1 ELSE 1
  IN  [t |-> "num", n |-> (s * n) \div g, d |-> (s * d) \div g]

IntV(i) == [t |-> "num", n |-> i, d |-> 1]
StrV(s) == [t |-> "str", s |-> s]
Null == [t |-> "null"]
NaN == [t |-> "nan"]

IsNum(v) == v.t = "num"
IsStr(v) == v.t = "str"

RECURSIVE Pow10(_)
Pow10(k) == IF k = 0 THEN 1 ELSE 10 * Pow10(k - 1)

\* the decimal digits of r/d after the point, r < d, at most k of them
RECURSIVE FracDigits(_, _, _)
FracDigits(r, d, k) ==
  IF r = 0 \/ k = 0 THEN ""
  ELSE ToString((10 * r) \div d) \o FracDigits((10 * r) % d, d, k - 1)

\* String(value): integers print without a point, other numbers with their
\* decimal expansion (up to the 16 digits a double shows)
JsString(v) ==
  CASE v.t = "str" -> v.s
    [] v.t = "null" -> "null"
    [] v.t = "nan" -> "NaN"
    [] v.t = "num" ->
         IF v.d = 1 THEN ToString(v.n)
         ELSE (IF v.n < 0 THEN "-" ELSE "") \o ToString(Abs(v.n) \div v.d) \o "."
              \o FracDigits(Abs(v.n) % v.d, v.d, 16)

(***************************************************************************)
(* Characters                                                              *)
(***************************************************************************)
DigitChars == "0123456789"
UpperChars == "ABCDEFGHIJKLMNOPQRSTUVWXYZ"
LowerChars == "abcdefghijklmnopqrstuvwxyz"

\* s[pos], 0-based; "" beyond the end
CharAt(s, pos) == IF pos < Len(s) THEN SubSeq(s, pos + 1, pos + 1) ELSE ""

\* String.prototype.indexOf for a one-character pattern, -1 when absent
RECURSIVE IndexFrom(_, _, _)
IndexFrom(s, c, pos) ==
  IF pos >= Len(s) THEN -1
  ELSE IF CharAt(s, pos) = c THEN pos
  ELSE IndexFrom(s, c, pos + 1)

StrIndexOf(s, c) == IndexFrom(s, c, 0)

IsDigit(c) == Len(c) = 1 /\ StrIndexOf(DigitChars, c) >= 0
IsLetter(c) == Len(c) = 1 /\ (StrIndexOf(UpperChars, c) >= 0 \/ StrIndexOf(LowerChars, c) >= 0)
IsSpace(c) == c \in {" ", "\t"}
DigitVal(c) == StrIndexOf(DigitChars, c)

\* String.prototype.toUpperCase
RECURSIVE ToUpperCase(_)
ToUpperCase(s) ==
  IF s = "" THEN ""
  ELSE LET c == Head(s)
           k == StrIndexOf(LowerChars, c)
       IN  (IF k >= 0 THEN CharAt(UpperChars, k) ELSE c) \o ToUpperCase(Tail(s))

RECURSIVE TrimLeft(_)
TrimLeft(s) == IF s # "" /\ IsSpace(Head(s)) THEN TrimLeft(Tail(s)) ELSE s

RECURSIVE TrimRight(_)
TrimRight(s) ==
  IF s # "" /\ IsSpace(CharAt(s, Len(s) - 1)) THEN TrimRight(SubSeq(s, 1, Len(s) - 1)) ELSE s

\* String.prototype.trim
Trim(s) == TrimRight(TrimLeft(s))

\* String.prototype.substring(from, to), clipped to the string
Substring(s, from, to) == SubSeq(s, from + 1, IF to > Len(s) THEN Len(s) ELSE to)

\* String.prototype.includes
Includes(s, pat) ==
  \E i \in 0..(Len(s) - Len(pat)) : SubSeq(s, i + 1, i + Len(pat)) = pat

\* String.prototype.endsWith
EndsWith(s, pat) == Len(s) >= Len(pat) /\ SubSeq(s, Len(s) - Len(pat) + 1, Len(s)) = pat

(***************************************************************************)
(* BasicTokenizer                                                          *)
(***************************************************************************)
KEYWORDS == {"PRINT", "LET", "INPUT", "IF", "THEN", "GOTO", "GOSUB", "RETURN",
             "FOR", "TO", "STEP", "NEXT", "REM", "END", "LIST", "RUN", "NEW",
             "HOME", "AND", "OR", "NOT"}

OPERATORS == {"<>", "<=", ">=", "=", "<", ">", "+", "-", "*", "/", "^"}

PUNCTUATION == {"(", ")", ",", ";", ":"}

createToken(type, value, position) ==
  [type |-> type, value |-> value, position |-> position]

isKeyword(word) == word \in KEYWORDS

RECURSIVE DigitsToInt(_)
DigitsToInt(s) ==
  IF s = "" THEN 0
  ELSE 10 * DigitsToInt(SubSeq(s, 1, Len(s) - 1)) + DigitVal(CharAt(s, Len(s) - 1))

\* parseInt(numStr, 10) / parseFloat(numStr) on the digits readNumber collects
ParseNumber(numStr, hasDecimal) ==
  IF ~hasDecimal THEN IntV(DigitsToInt(numStr))
  ELSE LET dot == StrIndexOf(numStr, ".")
           ip == Substring(numStr, 0, dot)
           fp == Substring(numStr, dot + 1, Len(numStr))
       IN  NumV(DigitsToInt(ip) * Pow10(Len(fp)) + DigitsToInt(fp), Pow10(Len(fp)))

RECURSIVE readNumberLoop(_, _, _, _)
readNumberLoop(source, pos, numStr, hasDecimal) ==
  IF pos < Len(source) /\ IsDigit(CharAt(source, pos))
    THEN readNumberLoop(source, pos + 1, numStr \o CharAt(source, pos), hasDecimal)
  ELSE IF pos < Len(source) /\ CharAt(source, pos) = "." /\ ~hasDecimal
    THEN readNumberLoop(source, pos + 1, numStr \o ".", TRUE)
  ELSE [value |-> ParseNumber(numStr, hasDecimal), endPos |-> pos]

readNumber(source, startPos) == readNumberLoop(source, startPos, "", FALSE)

RECURSIVE readStringLoop(_, _, _)
readStringLoop(source, pos, value) ==
  IF pos < Len(source)
    THEN IF CharAt(source, pos) = "\""
           THEN [value |-> value, endPos |-> pos + 1]
           ELSE readStringLoop(source, pos + 1, value \o CharAt(source, pos))
    ELSE [value |-> value, endPos |-> pos]

readString(source, startPos) == readStringLoop(source, startPos + 1, "")

RECURSIVE readWordLoop(_, _, _)
readWordLoop(source, pos, value) ==
  IF pos < Len(source)
     /\ (IsLetter(CharAt(source, pos)) \/ IsDigit(CharAt(source, pos)) \/ CharAt(source, pos) = "$")
    THEN readWordLoop(source, pos + 1, value \o CharAt(source, pos))
    ELSE [value |-> value, endPos |-> pos]

readWord(source, startPos) == readWordLoop(source, startPos, "")

\* readOperator trying the one-character operators first
readOperatorOneFirst(source, startPos) ==
  LET twoChar == Substring(source, startPos, startPos + 2)
      oneChar == CharAt(source, startPos)
  IN  IF oneChar \in OPERATORS
        THEN [found |-> TRUE, value |-> oneChar, endPos |-> startPos + 1]
      ELSE IF twoChar \in OPERATORS
        THEN [found |-> TRUE, value |-> twoChar, endPos |-> startPos + 2]
      ELSE [found |-> FALSE, value |-> "", endPos |-> startPos]

\* found = FALSE models the null result
readOperator(source, startPos) ==
  LET twoChar == Substring(source, startPos, startPos + 2)
      oneChar == CharAt(source, startPos)
  IN  IF twoChar \in OPERATORS
        THEN [found |-> TRUE, value |-> twoChar, endPos |-> startPos + 2]
      ELSE IF oneChar \in OPERATORS
        THEN [found |-> TRUE, value |-> oneChar, endPos |-> startPos + 1]
      ELSE [found |-> FALSE, value |-> "", endPos |-> startPos]

\* the while loop of tokenize; ok = FALSE models the thrown Error
RECURSIVE tokenizeLoop(_, _, _)
tokenizeLoop(source, pos, tokens) ==
  IF pos >= Len(source)
    THEN [ok |-> TRUE, tokens |-> Append(tokens, createToken("EOL", Null, pos)), msg |-> ""]
  ELSE LET char == CharAt(source, pos) IN
    IF IsSpace(char) THEN tokenizeLoop(source, pos + 1, tokens)
    ELSE IF IsDigit(char) THEN
      LET number == readNumber(source, pos)
      IN  tokenizeLoop(source, number.endPos,
                       Append(tokens, createToken("NUMBER", number.value, pos)))
    ELSE IF char = "\"" THEN
      LET str == readString(source, pos)
      IN  tokenizeLoop(source, str.endPos,
                       Append(tokens, createToken("STRING", StrV(str.value), pos)))
    ELSE IF IsLetter(char) THEN
      LET word == readWord(source, pos)
          upperWord == ToUpperCase(word.value)
      IN  tokenizeLoop(source, word.endPos,
                       Append(tokens,
                              createToken(IF isKeyword(upperWord) THEN "KEYWORD" ELSE "IDENTIFIER",
                                          StrV(upperWord), pos)))
    ELSE LET op == readOperator(source, pos) IN
      IF op.found
        THEN tokenizeLoop(source, op.endPos,
                          Append(tokens, createToken("OPERATOR", StrV(op.value), pos)))
      ELSE IF char \in PUNCTUATION
        THEN tokenizeLoop(source, pos + 1,
                          Append(tokens, createToken("PUNCTUATION", StrV(char), pos)))
      ELSE [ok |-> FALSE, tokens |-> <<>>,
            msg |-> "Unknown character: '" \o char \o "' at position " \o ToString(pos)]

\* tokenize returning without the push of the EOL token
tokenizeWithoutEnd(line) ==
  [tokenizeLoop(Trim(line), 0, <<>>) EXCEPT !.tokens = SubSeq(@, 1, Len(@) - 1)]

tokenize(line) == tokenizeLoop(Trim(line), 0, <<>>)

(***************************************************************************)
(* BasicParser.  The parser state (tokens, pos) is threaded through the    *)
(* operators: each returns [ok, node, pos, msg], where ok = FALSE models   *)
(* the thrown Error with message msg.                                      *)
(***************************************************************************)
NoNode == [type |-> "NONE"]
Ok(node, pos) == [ok |-> TRUE, node |-> node, pos |-> pos, msg |-> ""]
Fail(msg) == [ok |-> FALSE, node |-> NoNode, pos |-> 0, msg |-> msg]

\* `const r = call(); rest`: rest runs on what the call returned, and an
\* Error the call threw propagates
Then(r, rest(_)) == IF r.ok THEN rest(r) ELSE r

\* `const v = value; rest`
Bind(v, rest(_)) == rest(v)

currentToken(tokens, pos) == tokens[pos + 1]

isAtEnd(tokens, pos) == currentToken(tokens, pos).type \in {"EOL", "EOF"}

advance(tokens, pos) == IF ~isAtEnd(tokens, pos) THEN pos + 1 ELSE pos

\* value = Null models the omitted argument
check(tokens, pos, type, value) ==
  /\ ~isAtEnd(tokens, pos)
  /\ currentToken(tokens, pos).type = type
  /\ (value = Null \/ currentToken(tokens, pos).value = value)

\* node is the matched token
expect(tokens, pos, type, value) ==
  IF ~check(tokens, pos, type, value)
    THEN Fail("Expected " \o type \o (IF value # Null THEN " '" \o value.s \o "'" ELSE "")
              \o ", got " \o currentToken(tokens, pos).type)
    ELSE Ok(currentToken(tokens, pos), advance(tokens, pos))

RECURSIVE parseStatement(_, _)
RECURSIVE parseExpression(_, _)
RECURSIVE parsePrimary(_, _)

parsePrimary(tokens, pos) ==
  Bind(currentToken(tokens, pos), LAMBDA token :
    IF token.type = "NUMBER"
      THEN Ok([type |-> "NUMBER", value |-> token.value], advance(tokens, pos))
    ELSE IF token.type = "STRING"
      THEN Ok([type |-> "STRING", value |-> token.value], advance(tokens, pos))
    ELSE IF token.type = "IDENTIFIER"
      THEN Ok([type |-> "VARIABLE", name |-> token.value.s], advance(tokens, pos))
    ELSE IF check(tokens, pos, "PUNCTUATION", StrV("("))
      THEN Then(parseExpression(tokens, advance(tokens, pos)), LAMBDA expr :
           Then(expect(tokens, expr.pos, "PUNCTUATION", StrV(")")), LAMBDA close :
           Ok(expr.node, close.pos)))
    ELSE IF check(tokens, pos, "OPERATOR", StrV("-"))
      THEN Then(parsePrimary(tokens, advance(tokens, pos)), LAMBDA operand :
           Ok([type |-> "UNARY", operator |-> "-", operand |-> operand.node], operand.pos))
    ELSE Fail("Unexpected token in expression: " \o token.type
              \o " (" \o JsString(token.value) \o ")"))

\* the while loop of parseMultiplication
RECURSIVE parseMultiplicationLoop(_, _, _)
parseMultiplicationLoop(tokens, pos, node) ==
  Bind(currentToken(tokens, pos), LAMBDA op :
    IF op.type = "OPERATOR" /\ op.value.s \in {"*", "/"}
      THEN Then(parsePrimary(tokens, advance(tokens, pos)), LAMBDA right :
           parseMultiplicationLoop(tokens, right.pos,
             [type |-> "BINARY", operator |-> op.value.s, left |-> node, right |-> right.node]))
      ELSE Ok(node, pos))

parseMultiplication(tokens, pos) ==
  Then(parsePrimary(tokens, pos), LAMBDA first :
  parseMultiplicationLoop(tokens, first.pos, first.node))

\* parseAddition's loop taking a primary, not a product, as the right operand
RECURSIVE parseAdditionLoopPrimary(_, _, _)
parseAdditionLoopPrimary(tokens, pos, node) ==
  Bind(currentToken(tokens, pos), LAMBDA op :
    IF op.type = "OPERATOR" /\ op.value.s \in {"+", "-"}
      THEN Then(parsePrimary(tokens, advance(tokens, pos)), LAMBDA right :
           parseAdditionLoopPrimary(tokens, right.pos,
             [type |-> "BINARY", operator |-> op.value.s, left |-> node, right |-> right.node]))
      ELSE Ok(node, pos))

\* the while loop of parseAddition
RECURSIVE parseAdditionLoop(_, _, _)
parseAdditionLoop(tokens, pos, node) ==
  Bind(currentToken(tokens, pos), LAMBDA op :
    IF op.type = "OPERATOR" /\ op.value.s \in {"+", "-"}
      THEN Then(parseMultiplication(tokens, advance(tokens, pos)), LAMBDA right :
           parseAdditionLoop(tokens, right.pos,
             [type |-> "BINARY", operator |-> op.value.s, left |-> node, right |-> right.node]))
      ELSE Ok(node, pos))

parseAddition(tokens, pos) ==
  Then(parseMultiplication(tokens, pos), LAMBDA first :
  parseAdditionLoop(tokens, first.pos, first.node))

\* the while loop of parseComparison
RECURSIVE parseComparisonLoop(_, _, _)
parseComparisonLoop(tokens, pos, node) ==
  Bind(currentToken(tokens, pos), LAMBDA op :
    IF op.type = "OPERATOR" /\ op.value.s \in {"=", "<>", "<", ">", "<=", ">="}
      THEN Then(parseAddition(tokens, advance(tokens, pos)), LAMBDA right :
           parseComparisonLoop(tokens, right.pos,
             [type |-> "BINARY", operator |-> op.value.s, left |-> node, right |-> right.node]))
      ELSE Ok(node, pos))

parseComparison(tokens, pos) ==
  Then(parseAddition(tokens, pos), LAMBDA first :
  parseComparisonLoop(tokens, first.pos, first.node))

parseExpression(tokens, pos) == parseComparison(tokens, pos)

\* the while loop of parsePrint
RECURSIVE parsePrintLoop(_, _, _, _)
parsePrintLoop(tokens, pos, expressions, separators) ==
  IF ~isAtEnd(tokens, pos) /\ currentToken(tokens, pos).type # "EOL"
    THEN Then(parseExpression(tokens, pos), LAMBDA e :
         IF check(tokens, e.pos, "PUNCTUATION", StrV(";"))
           THEN parsePrintLoop(tokens, advance(tokens, e.pos),
                               Append(expressions, e.node), Append(separators, ";"))
         ELSE IF check(tokens, e.pos, "PUNCTUATION", StrV(","))
           THEN parsePrintLoop(tokens, advance(tokens, e.pos),
                               Append(expressions, e.node), Append(separators, ","))
         ELSE Ok([type |-> "PRINT", expressions |-> Append(expressions, e.node),
                  separators |-> separators], e.pos))
    ELSE Ok([type |-> "PRINT", expressions |-> expressions, separators |-> separators], pos)

parsePrint(tokens, pos) ==
  Then(expect(tokens, pos, "KEYWORD", StrV("PRINT")), LAMBDA kw :
  parsePrintLoop(tokens, kw.pos, <<>>, <<>>))

parseLet(tokens, pos) ==
  Then(expect(tokens,
              IF check(tokens, pos, "KEYWORD", StrV("LET")) THEN advance(tokens, pos) ELSE pos,
              "IDENTIFIER", Null), LAMBDA variable :
  Then(expect(tokens, variable.pos, "OPERATOR", StrV("=")), LAMBDA eq :
  Then(parseExpression(tokens, eq.pos), LAMBDA value :
  Ok([type |-> "LET", variable |-> variable.node.value.s, value |-> value.node], value.pos))))

parseInput(tokens, pos) ==
  Then(expect(tokens, pos, "KEYWORD", StrV("INPUT")), LAMBDA kw :
  Bind(currentToken(tokens, kw.pos), LAMBDA token :
  Bind(advance(tokens, kw.pos), LAMBDA p1 :
  Bind(IF token.type # "STRING" THEN ""
       ELSE IF ~check(tokens, p1, "PUNCTUATION", StrV(";"))
               /\ check(tokens, p1, "PUNCTUATION", StrV(","))
         THEN token.value.s \o ","
       ELSE token.value.s, LAMBDA prompt :
  Bind(IF token.type # "STRING" THEN kw.pos
       ELSE IF check(tokens, p1, "PUNCTUATION", StrV(";"))
               \/ check(tokens, p1, "PUNCTUATION", StrV(","))
         THEN advance(tokens, p1)
       ELSE p1, LAMBDA p2 :
  Then(expect(tokens, p2, "IDENTIFIER", Null), LAMBDA variable :
  Ok([type |-> "INPUT", prompt |-> prompt, variable |-> variable.node.value.s],
     variable.pos)))))))

parseIf(tokens, pos) ==
  Then(expect(tokens, pos, "KEYWORD", StrV("IF")), LAMBDA kw :
  Then(parseExpression(tokens, kw.pos), LAMBDA condition :
  Then(expect(tokens, condition.pos, "KEYWORD", StrV("THEN")), LAMBDA then :
    IF currentToken(tokens, then.pos).type = "NUMBER"
      THEN Ok([type |-> "IF", condition |-> condition.node,
               thenStatement |-> [type |-> "GOTO",
                                  lineNumber |-> currentToken(tokens, then.pos).value]],
              advance(tokens, then.pos))
      ELSE Then(parseStatement(tokens, then.pos), LAMBDA thenStatement :
           Ok([type |-> "IF", condition |-> condition.node,
               thenStatement |-> thenStatement.node], thenStatement.pos)))))

parseGoto(tokens, pos) ==
  Then(expect(tokens, pos, "KEYWORD", StrV("GOTO")), LAMBDA kw :
  Then(expect(tokens, kw.pos, "NUMBER", Null), LAMBDA lineNumber :
  Ok([type |-> "GOTO", lineNumber |-> lineNumber.node.value], lineNumber.pos)))

parseFor(tokens, pos) ==
  Then(expect(tokens, pos, "KEYWORD", StrV("FOR")), LAMBDA kw :
  Then(expect(tokens, kw.pos, "IDENTIFIER", Null), LAMBDA variable :
  Then(expect(tokens, variable.pos, "OPERATOR", StrV("=")), LAMBDA eq :
  Then(parseExpression(tokens, eq.pos), LAMBDA start :
  Then(expect(tokens, start.pos, "KEYWORD", StrV("TO")), LAMBDA to :
  Then(parseExpression(tokens, to.pos), LAMBDA end :
    IF check(tokens, end.pos, "KEYWORD", StrV("STEP"))
      THEN Then(parseExpression(tokens, advance(tokens, end.pos)), LAMBDA step :
           Ok([type |-> "FOR", variable |-> variable.node.value.s,
               start |-> start.node, end |-> end.node, step |-> step.node], step.pos))
      ELSE Ok([type |-> "FOR", variable |-> variable.node.value.s,
               start |-> start.node, end |-> end.node,
               step |-> [type |-> "NUMBER", value |-> IntV(1)]], end.pos)))))))

\* variable is a string value, or Null when NEXT names no variable
parseNext(tokens, pos) ==
  Then(expect(tokens, pos, "KEYWORD", StrV("NEXT")), LAMBDA kw :
    IF currentToken(tokens, kw.pos).type = "IDENTIFIER"
      THEN Ok([type |-> "NEXT", variable |-> currentToken(tokens, kw.pos).value],
              advance(tokens, kw.pos))
      ELSE Ok([type |-> "NEXT", variable |-> Null], kw.pos))

parseRem(tokens, pos) ==
  Then(expect(tokens, pos, "KEYWORD", StrV("REM")), LAMBDA kw : Ok([type |-> "REM"], kw.pos))

parseList(tokens, pos) ==
  Then(expect(tokens, pos, "KEYWORD", StrV("LIST")), LAMBDA kw :
    IF currentToken(tokens, kw.pos).type = "NUMBER"
      THEN Bind(currentToken(tokens, kw.pos).value, LAMBDA start :
           Bind(advance(tokens, kw.pos), LAMBDA p1 :
           IF check(tokens, p1, "OPERATOR", StrV("-"))
             THEN Bind(advance(tokens, p1), LAMBDA p2 :
                  IF currentToken(tokens, p2).type = "NUMBER"
                    THEN Ok([type |-> "LIST", start |-> start,
                             end |-> currentToken(tokens, p2).value], advance(tokens, p2))
                    ELSE Ok([type |-> "LIST", start |-> start, end |-> Null], p2))
             ELSE Ok([type |-> "LIST", start |-> start, end |-> Null], p1)))
      ELSE Ok([type |-> "LIST", start |-> Null, end |-> Null], kw.pos))

parseStatement(tokens, pos) ==
  Bind(currentToken(tokens, pos), LAMBDA token :
    IF token.type = "KEYWORD" THEN
      CASE token.value.s = "PRINT" -> parsePrint(tokens, pos)
        [] token.value.s = "LET" -> parseLet(tokens, pos)
        [] token.value.s = "INPUT" -> parseInput(tokens, pos)
        [] token.value.s = "IF" -> parseIf(tokens, pos)
        [] token.value.s = "GOTO" -> parseGoto(tokens, pos)
        [] token.value.s = "FOR" -> parseFor(tokens, pos)
        [] token.value.s = "NEXT" -> parseNext(tokens, pos)
        [] token.value.s = "REM" -> parseRem(tokens, pos)
        [] token.value.s = "END" -> Ok([type |-> "END"], advance(tokens, pos))
        [] token.value.s = "LIST" -> parseList(tokens, pos)
        [] token.value.s = "RUN" -> Ok([type |-> "RUN"], advance(tokens, pos))
        [] token.value.s = "NEW" -> Ok([type |-> "NEW"], advance(tokens, pos))
        [] token.value.s = "HOME" -> Ok([type |-> "HOME"], advance(tokens, pos))
        [] OTHER -> Fail("Unknown keyword: " \o token.value.s)
    ELSE IF token.type = "IDENTIFIER" THEN parseLet(tokens, pos)
    ELSE Fail("Unexpected token: " \o token.type))

parse(tokens) ==
  IF isAtEnd(tokens, 0) THEN Ok([type |-> "EMPTY"], 0)
  ELSE IF currentToken(tokens, 0).type = "NUMBER"
    THEN Then(parseStatement(tokens, advance(tokens, 0)), LAMBDA statement :
         Ok([type |-> "PROGRAM_LINE", lineNumber |-> currentToken(tokens, 0).value,
             statement |-> statement.node], statement.pos))
  ELSE parseStatement(tokens, 0)

(***************************************************************************)
(* JavaScript operators on values, as BasicInterpreter.evaluate and        *)
(* executeNext use them.  Arithmetic on numbers is exact; `-`, `*`, `/`    *)
(* with an operand that is not a number give NaN (no statement of the      *)
(* input sets applies them to a numeric string).                           *)
(***************************************************************************)
Undefined == [t |-> "undefined"]

NumLess(a, b) == a.n * b.d < b.n * a.d

JsPlus(a, b) ==
  IF IsNum(a) /\ IsNum(b) THEN NumV(a.n * b.d + b.n * a.d, a.d * b.d)
  ELSE IF IsStr(a) \/ IsStr(b) THEN StrV(JsString(a) \o JsString(b))
  ELSE NaN

JsMinus(a, b) ==
  IF IsNum(a) /\ IsNum(b) THEN NumV(a.n * b.d - b.n * a.d, a.d * b.d) ELSE NaN

JsTimes(a, b) ==
  IF IsNum(a) /\ IsNum(b) THEN NumV(a.n * b.n, a.d * b.d) ELSE NaN

\* only called with b # 0
JsDivide(a, b) ==
  IF IsNum(a) /\ IsNum(b) THEN NumV(a.n * b.d, a.d * b.n) ELSE NaN

JsNegate(a) == IF IsNum(a) THEN NumV(-a.n, a.d) ELSE NaN

\* a === b
JsStrictEquals(a, b) == a.t # "nan" /\ a = b

\* a < b on two numbers; FALSE when an operand is NaN
JsLess(a, b) == IsNum(a) /\ IsNum(b) /\ NumLess(a, b)

JsLessEq(a, b) == IsNum(a) /\ IsNum(b) /\ ~NumLess(b, a)

\* a truth test that takes only positive numbers as true
JsTruthyPositive(v) == v.t = "num" /\ v.n > 0

\* ToBoolean
JsTruthy(v) ==
  CASE v.t = "num" -> v.n # 0
    [] v.t = "str" -> v.s # ""
    [] OTHER -> FALSE

BoolNum(b) == IF b THEN IntV(1) ELSE IntV(0)

(***************************************************************************)
(* BasicInterpreter: expression evaluation.  evaluate returns              *)
(* [ok, value, variables, msg]: the variables after the auto-vivifying     *)
(* reads made so far, also when it throws (ok = FALSE, message msg).       *)
(***************************************************************************)
Has(f, k) == k \in DOMAIN f

\* obj[k] = v
Put(f, k, v) == [x \in DOMAIN f \cup {k} |-> IF x = k THEN v ELSE f[x]]

EmptyMap == <<>>

EvalOk(value, variables) == [ok |-> TRUE, value |-> value, variables |-> variables, msg |-> ""]
EvalFail(msg, variables) == [ok |-> FALSE, value |-> Undefined, variables |-> variables, msg |-> msg]

RECURSIVE evaluate(_, _)
evaluate(node, variables) ==
  CASE node.type = "NUMBER" -> EvalOk(node.value, variables)
    [] node.type = "STRING" -> EvalOk(node.value, variables)
    [] node.type = "VARIABLE" ->
         LET vars == IF ~Has(variables, node.name)
                       THEN Put(variables, node.name,
                                IF EndsWith(node.name, "$") THEN StrV("") ELSE IntV(0))
                       ELSE variables
         IN  EvalOk(vars[node.name], vars)
    [] node.type = "BINARY" ->
         LET left == evaluate(node.left, variables) IN
         IF ~left.ok THEN left
         ELSE LET right == evaluate(node.right, left.variables)
                  l == left.value
                  r == right.value
                  vars == right.variables
              IN
           IF ~right.ok THEN right
           ELSE CASE node.operator = "+" -> EvalOk(JsPlus(l, r), vars)
                  [] node.operator = "-" -> EvalOk(JsMinus(l, r), vars)
                  [] node.operator = "*" -> EvalOk(JsTimes(l, r), vars)
                  [] node.operator = "/" ->
                       IF r = IntV(0) THEN EvalFail("?DIVISION BY ZERO ERROR", vars)
                       ELSE EvalOk(JsDivide(l, r), vars)
                  [] node.operator = "=" -> EvalOk(BoolNum(JsStrictEquals(l, r)), vars)
                  [] node.operator = "<>" -> EvalOk(BoolNum(~JsStrictEquals(l, r)), vars)
                  [] node.operator = "<" -> EvalOk(BoolNum(JsLess(l, r)), vars)
                  [] node.operator = ">" -> EvalOk(BoolNum(JsLess(r, l)), vars)
                  [] node.operator = "<=" -> EvalOk(BoolNum(JsLessEq(l, r)), vars)
                  [] node.operator = ">=" -> EvalOk(BoolNum(JsLessEq(r, l)), vars)
                  [] OTHER -> EvalFail("Unknown operator: " \o node.operator, vars)
    [] node.type = "UNARY" ->
         LET operand == evaluate(node.operand, variables) IN
         IF ~operand.ok THEN operand
         ELSE IF node.operator = "-" THEN EvalOk(JsNegate(operand.value), operand.variables)
         ELSE EvalFail("Unknown unary operator: " \o node.operator, operand.variables)
    [] OTHER -> EvalFail("Cannot evaluate node type: " \o node.type, variables)

(***************************************************************************)
(* BasicInterpreter: statements.  The interpreter state is the record      *)
(* st = [program, variables, forStack, currentLine, running, nextLine,     *)
(* out]; out is the sequence of writes made through print / println / the  *)
(* clear callback.  A statement returns [st, res, msg, variable, prompt]:  *)
(* res is "ok", "error" (thrown, message msg), "input" (suspended at the   *)
(* await of the input callback) or "run" (executeNode calls run()).        *)
(***************************************************************************)
print(st, text) == [st EXCEPT !.out = Append(@, [op |-> "print", text |-> text])]

println(st, text) == [st EXCEPT !.out = Append(@, [op |-> "println", text |-> text])]

Done(st) == [st |-> st, res |-> "ok", msg |-> "", variable |-> "", prompt |-> ""]
Throw(st, msg) == [st |-> st, res |-> "error", msg |-> msg, variable |-> "", prompt |-> ""]

\* the for loop of executePrint from index i on
RECURSIVE executePrintLoop(_, _, _, _)
executePrintLoop(node, i, output, variables) ==
  IF i < Len(node.expressions)
    THEN LET value == evaluate(node.expressions[i + 1], variables) IN
         IF ~value.ok THEN [ok |-> FALSE, output |-> output, variables |-> value.variables,
                            msg |-> value.msg]
         ELSE executePrintLoop(node, i + 1,
                output \o JsString(value.value)
                       \o (IF i < Len(node.separators) /\ node.separators[i + 1] = ","
                             THEN "     " ELSE ""),
                value.variables)
    ELSE [ok |-> TRUE, output |-> output, variables |-> variables, msg |-> ""]

\* a PRINT that ends every statement with a newline
executePrintAlwaysLine(node, st) ==
  LET r == executePrintLoop(node, 0, "", st.variables)
      st1 == [st EXCEPT !.variables = r.variables]
  IN  IF ~r.ok THEN Throw(st1, r.msg) ELSE Done(println(st1, r.output))

executePrint(node, st) ==
  LET r == executePrintLoop(node, 0, "", st.variables)
      st1 == [st EXCEPT !.variables = r.variables]
  IN  IF ~r.ok THEN Throw(st1, r.msg)
      ELSE IF Len(node.separators) = 0 \/ node.separators[Len(node.separators)] # ";"
        THEN Done(println(st1, r.output))
        ELSE Done(print(st1, r.output))

executeLet(node, st) ==
  LET value == evaluate(node.value, st.variables)
  IN  IF ~value.ok THEN Throw([st EXCEPT !.variables = value.variables], value.msg)
      ELSE Done([st EXCEPT !.variables = Put(value.variables, node.variable, value.value)])

\* up to the await: the input callback is called with promptText
executeInput(node, st) ==
  [st |-> st, res |-> "input", msg |-> "", variable |-> node.variable,
   prompt |-> IF node.prompt # "" THEN node.prompt ELSE "? "]

\* a GOTO that records the jump before it checks the target
executeGotoRecordingFirst(node, st) ==
  IF ~Has(st.program, node.lineNumber)
    THEN Throw([st EXCEPT !.nextLine = node.lineNumber], "?UNDEF'D STATEMENT ERROR")
  ELSE Done([st EXCEPT !.nextLine = node.lineNumber])

executeGoto(node, st) ==
  IF ~Has(st.program, node.lineNumber) THEN Throw(st, "?UNDEF'D STATEMENT ERROR")
  ELSE Done([st EXCEPT !.nextLine = node.lineNumber])

executeFor(node, st) ==
  LET startValue == evaluate(node.start, st.variables) IN
  IF ~startValue.ok THEN Throw([st EXCEPT !.variables = startValue.variables], startValue.msg)
  ELSE LET endValue == evaluate(node.end, startValue.variables) IN
    IF ~endValue.ok THEN Throw([st EXCEPT !.variables = endValue.variables], endValue.msg)
    ELSE LET stepValue == evaluate(node.step, endValue.variables) IN
      IF ~stepValue.ok THEN Throw([st EXCEPT !.variables = stepValue.variables], stepValue.msg)
      ELSE Done([st EXCEPT
                   !.variables = Put(stepValue.variables, node.variable, startValue.value),
                   !.forStack = Append(@, [variable |-> node.variable,
                                           endValue |-> endValue.value,
                                           stepValue |-> stepValue.value,
                                           bodyStart |-> st.currentLine])])

\* executeNext testing the new value against the limit exclusively
executeNextExclusive(node, st) ==
  IF Len(st.forStack) = 0 THEN Throw(st, "?NEXT WITHOUT FOR ERROR")
  ELSE LET loop == st.forStack[Len(st.forStack)] IN
    IF node.variable # Null /\ node.variable.s # "" /\ node.variable.s # loop.variable
      THEN Throw(st, "?NEXT WITHOUT FOR ERROR")
    ELSE LET currentValue == st.variables[loop.variable]
             newValue == JsPlus(currentValue, loop.stepValue)
         IN  IF \/ (JsLess(IntV(0), loop.stepValue) /\ JsLess(newValue, loop.endValue))
                \/ (JsLess(loop.stepValue, IntV(0)) /\ JsLess(loop.endValue, newValue))
               THEN Done([st EXCEPT !.variables = Put(@, loop.variable, newValue),
                                    !.nextLine = loop.bodyStart])
               ELSE Done([st EXCEPT !.forStack = SubSeq(@, 1, Len(@) - 1)])

\* executeNext taking a step of zero as an upward step
executeNextZeroUp(node, st) ==
  IF Len(st.forStack) = 0 THEN Throw(st, "?NEXT WITHOUT FOR ERROR")
  ELSE LET loop == st.forStack[Len(st.forStack)] IN
    IF node.variable # Null /\ node.variable.s # "" /\ node.variable.s # loop.variable
      THEN Throw(st, "?NEXT WITHOUT FOR ERROR")
    ELSE LET currentValue == st.variables[loop.variable]
             newValue == JsPlus(currentValue, loop.stepValue)
         IN  IF \/ (JsLessEq(IntV(0), loop.stepValue) /\ JsLessEq(newValue, loop.endValue))
                \/ (JsLess(loop.stepValue, IntV(0)) /\ JsLessEq(loop.endValue, newValue))
               THEN Done([st EXCEPT !.variables = Put(@, loop.variable, newValue),
                                    !.nextLine = loop.bodyStart])
               ELSE Done([st EXCEPT !.forStack = SubSeq(@, 1, Len(@) - 1)])

executeNext(node, st) ==
  IF Len(st.forStack) = 0 THEN Throw(st, "?NEXT WITHOUT FOR ERROR")
  ELSE LET loop == st.forStack[Len(st.forStack)] IN
    IF node.variable # Null /\ node.variable.s # "" /\ node.variable.s # loop.variable
      THEN Throw(st, "?NEXT WITHOUT FOR ERROR")
    ELSE LET currentValue == st.variables[loop.variable]
             newValue == JsPlus(currentValue, loop.stepValue)
         IN  IF \/ (JsLess(IntV(0), loop.stepValue) /\ JsLessEq(newValue, loop.endValue))
                \/ (JsLess(loop.stepValue, IntV(0)) /\ JsLessEq(loop.endValue, newValue))
               THEN Done([st EXCEPT !.variables = Put(@, loop.variable, newValue),
                                    !.nextLine = loop.bodyStart])
               ELSE Done([st EXCEPT !.forStack = SubSeq(@, 1, Len(@) - 1)])

\* Array.from(program.keys()).sort((a, b) => a - b)
RECURSIVE SortedKeys(_)
SortedKeys(keys) ==
  IF keys = {} THEN <<>>
  ELSE LET min == CHOOSE k \in keys : \A j \in keys : ~NumLess(j, k)
       IN  <<min>> \o SortedKeys(keys \ {min})

\* source.replace(/^\d+\s*/, '')
RECURSIVE SkipWhile(_, _)
SkipWhile(s, digits) ==
  IF s # "" /\ (IF digits THEN IsDigit(Head(s)) ELSE IsSpace(Head(s)))
    THEN SkipWhile(Tail(s), digits) ELSE s

StripLineNumber(source) ==
  IF source # "" /\ IsDigit(Head(source))
    THEN SkipWhile(SkipWhile(source, TRUE), FALSE) ELSE source

\* the for-of loop of executeList
RECURSIVE executeListLoop(_, _, _, _, _)
executeListLoop(st, lines, i, start, end) ==
  IF i > Len(lines) THEN st
  ELSE executeListLoop(
         IF ~NumLess(lines[i], start) /\ ~NumLess(end, lines[i])
           THEN println(st, JsString(lines[i]) \o " "
                            \o StripLineNumber(st.program[lines[i]].source))
           ELSE st,
         lines, i + 1, start, end)

executeList(node, st) ==
  LET lines == SortedKeys(DOMAIN st.program) IN
  IF Len(lines) = 0 THEN Done(println(st, ""))
  ELSE LET start == IF node.start # Null THEN node.start ELSE lines[1]
           end == IF node.end # Null THEN node.end ELSE lines[Len(lines)]
       IN  Done(executeListLoop(st, lines, 1, start, end))

\* a NEW that leaves the loop stack as it is
executeNewKeepingLoops(st) ==
  println([st EXCEPT !.program = EmptyMap, !.variables = EmptyMap], "")

executeNew(st) ==
  println([st EXCEPT !.program = EmptyMap, !.variables = EmptyMap, !.forStack = <<>>], "")

executeHome(st) == [st EXCEPT !.out = Append(@, [op |-> "clear", text |-> ""])]

RECURSIVE executeNode(_, _)
executeNode(node, st) ==
  CASE node.type = "PRINT" -> executePrint(node, st)
    [] node.type = "LET" -> executeLet(node, st)
    [] node.type = "INPUT" -> executeInput(node, st)
    [] node.type = "IF" ->
         LET condition == evaluate(node.condition, st.variables)
             st1 == [st EXCEPT !.variables = condition.variables]
         IN  IF ~condition.ok THEN Throw(st1, condition.msg)
             ELSE IF JsTruthy(condition.value) THEN executeNode(node.thenStatement, st1)
             ELSE Done(st1)
    [] node.type = "GOTO" -> executeGoto(node, st)
    [] node.type = "FOR" -> executeFor(node, st)
    [] node.type = "NEXT" -> executeNext(node, st)
    [] node.type = "END" -> Done([st EXCEPT !.running = FALSE])
    [] node.type = "RUN" -> [st |-> st, res |-> "run", msg |-> "", variable |-> "", prompt |-> ""]
    [] node.type = "LIST" -> executeList(node, st)
    [] node.type = "NEW" -> Done(executeNew(st))
    [] node.type = "HOME" -> Done(executeHome(st))
    [] node.type = "REM" -> Done(st)
    [] OTHER -> Throw(st, "Unknown node type: " \o node.type)

storeLine(st, lineNumber, source, ast) ==
  IF ast.type = "EMPTY" \/ (ast.type = "REM" /\ ~Includes(source, "REM"))
    THEN [st EXCEPT !.program = [k \in DOMAIN @ \ {lineNumber} |-> @[k]]]
    ELSE [st EXCEPT !.program = Put(@, lineNumber, [source |-> source, ast |-> ast])]

\* Array.prototype.indexOf, 0-based, -1 when absent
IndexOfLine(lines, x) ==
  IF \E i \in 1..Len(lines) : lines[i] = x
    THEN (CHOOSE i \in 1..Len(lines) : lines[i] = x /\ \A j \in 1..(i - 1) : lines[j] # x) - 1
    ELSE -1

\* parseFloat: optional sign, digits, optional fraction; NaN without a digit
RECURSIVE TakeDigits(_)
TakeDigits(s) == IF s # "" /\ IsDigit(Head(s)) THEN Head(s) \o TakeDigits(Tail(s)) ELSE ""

parseFloat(text) ==
  LET t0 == TrimLeft(text)
      neg == t0 # "" /\ Head(t0) = "-"
      t1 == IF t0 # "" /\ Head(t0) \in {"-", "+"} THEN Tail(t0) ELSE t0
      ip == TakeDigits(t1)
      t2 == SubSeq(t1, Len(ip) + 1, Len(t1))
      fp == IF t2 # "" /\ Head(t2) = "." THEN TakeDigits(Tail(t2)) ELSE ""
      mag == NumV(DigitsToInt(ip) * Pow10(Len(fp)) + DigitsToInt(fp), Pow10(Len(fp)))
  IN  IF ip = "" /\ fp = "" THEN NaN
      ELSE IF neg THEN JsNegate(mag) ELSE mag

(***************************************************************************)
(* The drivers.  A machine state m = [st, frames, pc, pending, trace, err] *)
(* adds the control state to st: frames is the stack of active run()       *)
(* calls, each with its sorted snapshot `lines` and the loop index i of    *)
(* the iteration to do next; pc is "idle" (no executeImmediate call        *)
(* active), "run" (at the head of an iteration of run's for loop) or       *)
(* "input" (suspended at executeInput's await); pending is the INPUT       *)
(* statement's variable.  trace and err record the lines run() executed    *)
(* and whether a catch block reported an error since the current           *)
(* executeImmediate call began.                                            *)
(***************************************************************************)
RECURSIVE Return(_)
RECURSIVE AfterNode(_)

\* run(): `this.state.running = false` after the loop, and the return
FinishRun(m) ==
  Return([m EXCEPT !.st.running = FALSE, !.frames = SubSeq(@, 1, Len(@) - 1)])

\* a catch block that reports the error and leaves the running flag set
RunCatchStillRunning(m, msg) ==
  Return([m EXCEPT !.st = print(@, msg \o "\n"), !.err = TRUE,
                   !.frames = SubSeq(@, 1, Len(@) - 1)])

\* run(): the catch block
RunCatch(m, msg) == FinishRun([m EXCEPT !.st = print(@, msg \o "\n"), !.err = TRUE])

\* run(): the head of the for loop
Loop(m) ==
  LET f == m.frames[Len(m.frames)]
  IN  IF f.i < Len(f.lines) /\ m.st.running THEN [m EXCEPT !.pc = "run"] ELSE FinishRun(m)

\* the jump of run() that leaves the jump target pending
AfterNodeKeepingTarget(m) ==
  LET top == Len(m.frames)
      f == m.frames[top]
  IN  IF m.st.nextLine # Undefined
        THEN LET nextIdx == IndexOfLine(f.lines, m.st.nextLine) IN
             IF nextIdx = -1
               THEN RunCatch(m, "?UNDEF'D STATEMENT ERROR IN LINE " \o JsString(m.st.currentLine))
               ELSE Loop([m EXCEPT !.frames[top].i = nextIdx])
        ELSE Loop([m EXCEPT !.frames[top].i = f.i + 1])

\* run(): after `await this.executeNode(line.ast)`, up to the loop's i++
AfterNode(m) ==
  LET top == Len(m.frames)
      f == m.frames[top]
  IN  IF m.st.nextLine # Undefined
        THEN LET nextIdx == IndexOfLine(f.lines, m.st.nextLine) IN
             IF nextIdx = -1
               THEN RunCatch(m, "?UNDEF'D STATEMENT ERROR IN LINE " \o JsString(m.st.currentLine))
               ELSE Loop([m EXCEPT !.frames[top].i = nextIdx, !.st.nextLine = Undefined])
        ELSE Loop([m EXCEPT !.frames[top].i = f.i + 1])

\* the return of an executeNode call to its caller: an iteration of an
\* enclosing run(), or executeImmediate
Return(m) == IF Len(m.frames) > 0 THEN AfterNode(m) ELSE [m EXCEPT !.pc = "idle"]

\* a catch block that also clears the variable environment
ImmediateCatchClearing(m, msg) ==
  [m EXCEPT !.st = print([@ EXCEPT !.variables = EmptyMap], "?SYNTAX ERROR\n" \o msg \o "\n"),
            !.err = TRUE, !.pc = "idle"]

\* executeImmediate: the catch block
ImmediateCatch(m, msg) ==
  [m EXCEPT !.st = print(@, "?SYNTAX ERROR\n" \o msg \o "\n"), !.err = TRUE, !.pc = "idle"]

\* a throw reaches the nearest enclosing try: run()'s, else executeImmediate's
Catch(m, msg) == IF Len(m.frames) > 0 THEN RunCatch(m, msg) ELSE ImmediateCatch(m, msg)

\* a run() that starts with the loop stack it finds
runKeepingLoops(m) ==
  IF DOMAIN m.st.program = {}
    THEN Return([m EXCEPT !.st = print(@, "?NO PROGRAM\n")])
    ELSE Loop([m EXCEPT !.st.running = TRUE, !.st.variables = EmptyMap,
                        !.frames = Append(@, [lines |-> SortedKeys(DOMAIN m.st.program),
                                              i |-> 0])])

\* run() up to the head of its first iteration
run(m) ==
  IF DOMAIN m.st.program = {}
    THEN Return([m EXCEPT !.st = print(@, "?NO PROGRAM\n")])
    ELSE Loop([m EXCEPT !.st.running = TRUE, !.st.variables = EmptyMap, !.st.forStack = <<>>,
                        !.frames = Append(@, [lines |-> SortedKeys(DOMAIN m.st.program),
                                              i |-> 0])])

\* what follows a call of executeNode with result r
Continue(m, r) ==
  LET m1 == [m EXCEPT !.st = r.st] IN
  CASE r.res = "ok" -> Return(m1)
    [] r.res = "error" -> Catch(m1, r.msg)
    [] r.res = "input" ->
         [m1 EXCEPT !.pc = "input", !.pending = r.variable,
                    !.st.out = Append(@, [op |-> "input", text |-> r.prompt])]
    [] r.res = "run" -> run(m1)

\* one iteration of run's for loop, entered with i < lines.length and running
runIteration(m) ==
  LET f == m.frames[Len(m.frames)]
      line == f.lines[f.i + 1]
      m1 == [m EXCEPT !.st.currentLine = line]
  IN  IF ~Has(m.st.program, line)
        THEN RunCatch(m1, "Cannot read properties of undefined (reading 'ast')")
        ELSE Continue([m1 EXCEPT !.trace = Append(@, line)],
                      executeNode(m.st.program[line].ast, m1.st))

\* executeInput after the await
resumeInput(m, input) ==
  LET m1 == [m EXCEPT !.pending = ""] IN
  IF EndsWith(m.pending, "$")
    THEN Return([m1 EXCEPT !.st.variables = Put(@, m.pending, StrV(input))])
    ELSE LET num == parseFloat(input) IN
         IF num = NaN THEN Catch(m1, "?TYPE MISMATCH ERROR")
         ELSE Return([m1 EXCEPT !.st.variables = Put(@, m.pending, num)])

\* numbered lines a session may enter
StoredLines ==
  {"10 FOR I=1 TO 3", "10 PRINT 1", "10 INPUT A",
   "20 PRINT I", "20 GOTO 99", "20 PRINT B/0", "20 rem x", "20",
   "30 NEXT I", "30 END"}

\* immediate-mode lines a session may enter
ImmediateLines ==
  {"RUN", "NEW", "LIST", "GOTO 30", "GOTO 99", "LET A=B/0",
   "FOR I=1 TO 2", "NEXT", "PRINT @"}

Lines == StoredLines \cup ImmediateLines

\* texts a session may type at an INPUT
InputTexts == {"5", "X", "5X"}

\* texts typed on the page that holds the playground and the tutorial
PageTexts == {"10 input a", "run", "input a", "5"}

\* lines of a session that lists programs and prints values; a line typed at
\* the REPL reaches executeImmediate with the spaces typed before it
StatementLines ==
  {"10 NEW", "20 PRINT 1", " 30 PRINT 2", "1.5 PRINT 3", "0 PRINT 0",
   "RUN", "LIST", "LIST 20", "LIST 1-20", "LET A=0.5",
   "PRINT", "PRINT 1;2", "PRINT A,2", "PRINT \"A\";", "PRINT A;\"B\","}

\* lines of a session that runs counted loops, upwards and downwards
LoopLines ==
  {"10 FOR I=1 TO 1", "10 FOR I=1 TO 2", "10 FOR I=2 TO 1 STEP -1",
   "20 NEXT I", "20 NEXT", "30 PRINT I",
   "RUN", "FOR I=1 TO 2", "FOR I=2 TO 1 STEP -1", "NEXT", "NEXT I"}

\* lines of a session whose programs end before their last line
EndLines ==
  {"10 END", "10 IF 1 THEN END", "10 IF 0 THEN END", "10 PRINT 0", "20 END",
   "20 IF 1 THEN END", "30 PRINT 1", "GOTO 30", "NEW", "RUN"}

\* lines of a session that branches on conditions
IfLines ==
  {"IF 1 THEN PRINT 1", "IF 0 THEN PRINT 1", "IF 0-1 THEN 99", "IF A THEN 40",
   "IF A<1 THEN 99", "LET A=0.5", "PRINT 1", "GOTO 99", "GOTO 40", "RUN",
   "10 LET A=1", "20 IF A THEN 40", "20 IF A<1 THEN 99", "30 PRINT 1", "40 PRINT 2"}

\* every line some session gives to executeImmediate
\* lines of a session whose loops start beyond their limit or step by zero
ForLines ==
  {"10 FOR I=2 TO 1", "10 FOR I=1 TO 2 STEP 0", "10 FOR I=1 TO 2",
   "20 PRINT I", "30 NEXT I", "30 NEXT",
   "RUN", "FOR I=1 TO 2 STEP 0", "FOR I=1 TO 2", "NEXT", "GOTO 30"}

\* lines of a session whose programs jump, forwards and backwards, and ask
\* for input
JumpLines ==
  {"10 INPUT A", "10 GOTO 30", "20 IF A THEN 30", "20 GOTO 40",
   "30 GOTO 10", "30 PRINT 1", "30", "RUN", "GOTO 10"}

AllLines ==
  Lines \cup {ToUpperCase(text) : text \in PageTexts} \cup StatementLines \cup LoopLines
  \cup EndLines \cup IfLines \cup ForLines \cup JumpLines

\* tokenize and parse are pure: their results on the session's lines, computed once
Tokenized == [line \in AllLines |-> tokenize(line)]

Parsed == [line \in AllLines |-> IF Tokenized[line].ok THEN parse(Tokenized[line].tokens)
                                                    ELSE Fail(Tokenized[line].msg)]

\* executeImmediate from the parsed line on; a failed ast is the Error that
\* tokenize or parse threw
executeParsed(m, line, ast) ==
  IF ~ast.ok THEN ImmediateCatch(m, ast.msg)
  ELSE IF ast.node.type = "PROGRAM_LINE"
    THEN [m EXCEPT !.st = storeLine(@, ast.node.lineNumber, line, ast.node.statement)]
  ELSE IF ast.node.type = "EMPTY" THEN m
  ELSE Continue(m, executeNode(ast.node, m.st))

executeImmediate(m, line) ==
  IF Trim(line) = "" THEN m ELSE executeParsed(m, line, Parsed[line])

(***************************************************************************)
(* The session: lines given to executeImmediate one at a time, as the REPL *)
(* of AppleIIEnvironment.startREPL does, and the text typed at INPUT.      *)
(* The lines are the raw strings executeImmediate receives: typed text is  *)
(* upper-cased by BasicScreen.handleInputKeydown, other callers pass the   *)
(* string as it is.                                                        *)
(***************************************************************************)
VARIABLES program, variables, forStack, currentLine, running, nextLine, out,
          frames, pc, pending, trace, err, afterErr

\* the page around the interpreter: the playground's BasicScreen, the
\* tutorial's mini screen, the interpreter's callbacks, TutorialValidator,
\* the promises getInput returned, the suspended calls and the owner of the
\* call that is running
VARIABLES screen, mini, callbacks, validator, requests, waiting, who

page == <<screen, mini, callbacks, validator, requests, waiting, who>>

\* the calls made to BasicTokenizer.tokenize, BasicParser.parse and
\* BasicScreen.print/println on their own, each with its argument and what
\* it returned, and the character grid and cursor of a BasicScreen
VARIABLES calls, display

\* the tutorial: TutorialEngine.state with the fetches of tutorial data that
\* init awaits, and Progress.state.events, the lessonsCompleted of each event
VARIABLES engine, progress

tutor == <<engine, progress>>

apart == <<calls, display, tutor>>

vars == <<program, variables, forStack, currentLine, running, nextLine, out,
          frames, pc, pending, trace, err, afterErr, page, apart>>

\* TutorialEngine.state before init; `fetching` counts the init calls that
\* await the tutorial data of an event, `inits` the init calls made, and
\* `returned` is what the last navigation call returned
NoEngine ==
  [eventId |-> "null", lessons |-> <<>>, currentLessonIndex |-> 0, lessonStatus |-> <<>>,
   isLoaded |-> FALSE, fetching |-> <<>>, inits |-> 0, returned |-> FALSE]

\* BasicScreen.state before init
NoScreen == [container |-> FALSE, inputMode |-> FALSE, inputBuffer |-> "", inputResolve |-> 0]

\* an output callback: none, BasicScreen's, or `wraps` capture wrappers around one
NoCallback == [base |-> "null", wraps |-> 0]
ScreenCallback == [base |-> "screen", wraps |-> 0]

PageInit ==
  /\ screen = NoScreen
  /\ mini = NoScreen
  /\ callbacks = [output |-> NoCallback, input |-> FALSE]
  /\ validator = [isCapturing |-> FALSE, originalCallbacks |-> Null, interpreterInstance |-> FALSE]
  /\ requests = <<>>
  /\ waiting = <<>>
  /\ who = "none"

\* BasicScreen.state.buffer, cursorX and cursorY before init
NoDisplay == [buffer |-> <<>>, cursorX |-> 0, cursorY |-> 0]

\* the iterations of run's for loop explored in one executeImmediate call
MaxSteps == 6

\* the FOR frames explored on the loop stack
MaxStack == 2

St == [program |-> program, variables |-> variables, forStack |-> forStack,
       currentLine |-> currentLine, running |-> running, nextLine |-> nextLine,
       out |-> out]

M == [st |-> St, frames |-> frames, pc |-> pc, pending |-> pending,
      trace |-> trace, err |-> err]

\* the call ends in machine state m, within the loop stack depth explored
Becomes(m) ==
  /\ Len(m.st.forStack) <= MaxStack
  /\ program' = m.st.program
  /\ variables' = m.st.variables
  /\ forStack' = m.st.forStack
  /\ currentLine' = m.st.currentLine
  /\ running' = m.st.running
  /\ nextLine' = m.st.nextLine
  /\ out' = m.st.out
  /\ frames' = m.frames
  /\ pc' = m.pc
  /\ pending' = m.pending
  /\ trace' = m.trace
  /\ err' = m.err

Init ==
  /\ program = EmptyMap
  /\ variables = EmptyMap
  /\ forStack = <<>>
  /\ currentLine = IntV(0)
  /\ running = FALSE
  /\ nextLine = Undefined
  /\ out = <<>>
  /\ frames = <<>>
  /\ pc = "idle"
  /\ pending = ""
  /\ trace = <<>>
  /\ err = FALSE
  /\ afterErr = FALSE
  /\ PageInit
  /\ calls = <<>>
  /\ display = NoDisplay
  /\ engine = NoEngine
  /\ progress = EmptyMap

\* the REPL passes the next line to executeImmediate
ExecuteImmediate(line) ==
  /\ pc = "idle"
  /\ Becomes(executeImmediate([M EXCEPT !.st.out = <<>>, !.trace = <<>>, !.err = FALSE], line))
  /\ afterErr' = err
  /\ UNCHANGED <<page, apart>>

\* the next iteration of the for loop of a run() in progress
RunIteration ==
  /\ pc = "run"
  /\ Len(trace) < MaxSteps
  /\ \E m \in {runIteration(M)} : Becomes(m)
  /\ UNCHANGED <<afterErr, page, apart>>

\* Enter on the text typed at a pending INPUT
ResolveInput(input) ==
  /\ pc = "input"
  /\ \E m \in {resumeInput(M, input)} : Becomes(m)
  /\ UNCHANGED <<afterErr, page, apart>>

Next ==
  \/ \E line \in Lines : ExecuteImmediate(line)
  \/ RunIteration
  \/ \E input \in InputTexts : ResolveInput(input)

Spec == Init /\ [][Next]_vars

\* a session that only enters numbered lines and RUN
NextProgram ==
  \/ \E line \in StoredLines \cup {"RUN"} : ExecuteImmediate(line)
  \/ RunIteration
  \/ \E input \in InputTexts : ResolveInput(input)

SpecProgram == Init /\ [][NextProgram]_vars

\* a session that lists programs and prints values
NextStatements ==
  \/ \E line \in StatementLines : ExecuteImmediate(line)
  \/ RunIteration

SpecStatements == Init /\ [][NextStatements]_vars

\* a session that runs counted loops
NextLoops ==
  \/ \E line \in LoopLines : ExecuteImmediate(line)
  \/ RunIteration

SpecLoops == Init /\ [][NextLoops]_vars

\* a session whose programs end before their last line
NextEnd ==
  \/ \E line \in EndLines : ExecuteImmediate(line)
  \/ RunIteration

SpecEnd == Init /\ [][NextEnd]_vars

\* a session that branches on conditions
NextIf ==
  \/ \E line \in IfLines : ExecuteImmediate(line)
  \/ RunIteration

SpecIf == Init /\ [][NextIf]_vars

\* a session whose loops start beyond their limit or step by zero
NextFor ==
  \/ \E line \in ForLines : ExecuteImmediate(line)
  \/ RunIteration

SpecFor == Init /\ [][NextFor]_vars

\* a session whose programs jump and ask for input.  run() is one async
\* call: once started, its loop goes on from line to line without waiting
\* for any event but the answer to an INPUT, which is assumed to come
NextJumps ==
  \/ \E line \in JumpLines : ExecuteImmediate(line)
  \/ RunIteration
  \/ \E input \in InputTexts : ResolveInput(input)

SpecJumps ==
  /\ Init /\ [][NextJumps]_vars
  /\ WF_vars(RunIteration)
  /\ WF_vars(\E input \in InputTexts : ResolveInput(input))

(***************************************************************************)
(* The page of an event: the playground tab (AppleIIEnvironment with the   *)
(* BasicScreen and the REPL) and the tutorial tab (TutorialRenderer with   *)
(* its mini screen and TutorialValidator) share the one BasicInterpreter.  *)
(* Every async call runs until it awaits a promise that only a later event *)
(* settles: the promise of getInput, or the 100 ms delay of runAndCheck.   *)
(* A page state p = [m, screen, mini, callbacks, validator, requests,      *)
(* waiting, who]: requests[id] is the promise the id-th getInput call      *)
(* returned, waiting holds the suspended calls in the order they           *)
(* suspended, who owns the call that is running.                           *)
(***************************************************************************)
\* the promises explored, the calls suspended at once, the wrappers nested
MaxRequests == 3
MaxWaiting == 3
MaxWraps == 2

P == [m |-> M, screen |-> screen, mini |-> mini, callbacks |-> callbacks,
      validator |-> validator, requests |-> requests, waiting |-> waiting, who |-> who]

PageBecomes(p) ==
  /\ Len(p.requests) <= MaxRequests
  /\ Len(p.waiting) <= MaxWaiting
  /\ p.callbacks.output.wraps <= MaxWraps
  /\ Becomes(p.m)
  /\ screen' = p.screen
  /\ mini' = p.mini
  /\ callbacks' = p.callbacks
  /\ validator' = p.validator
  /\ requests' = p.requests
  /\ waiting' = p.waiting
  /\ who' = p.who
  /\ UNCHANGED <<afterErr, apart>>

\* a call that begins: the record of what the call wrote and ran starts empty
Begin(m) == [m EXCEPT !.st.out = <<>>, !.trace = <<>>, !.err = FALSE]

\* print and println write only `if (this.state.outputCallback)`: without an
\* output callback nothing of what the step printed after `old` is written
Written(p, old) ==
  IF p.callbacks.output = NoCallback
    THEN [p EXCEPT !.m.st.out =
            old \o SelectSeq(SubSeq(@, Len(old) + 1, Len(@)), LAMBDA w : w.op = "input")]
    ELSE p

\* BasicScreen.getInput on the playground's screen; `call` is the caller
\* that awaits the promise
getInput(p, by, call) ==
  [p EXCEPT !.screen = [@ EXCEPT !.inputMode = TRUE, !.inputBuffer = "",
                                 !.inputResolve = Len(p.requests) + 1],
            !.requests = Append(@, [by |-> by, resolved |-> 0]),
            !.waiting = Append(@, [call EXCEPT !.req = Len(p.requests) + 1])]

Call(task, at, fs, variable) ==
  [task |-> task, at |-> at, req |-> 0, frames |-> fs, pending |-> variable]

\* executeInput: `this.state.inputCallback(promptText)` with no input
\* callback is a TypeError
called(p) ==
  IF p.m.pc = "input" /\ ~p.callbacks.input
    THEN [p EXCEPT !.m = Catch([@ EXCEPT !.pending = "",
                                         !.st.out = SubSeq(@, 1, Len(@) - 1)],
                               "this.state.inputCallback is not a function")]
    ELSE p

\* the running call goes on to its next line, or awaits: INPUT awaits
\* getInput, the REPL loops to showPrompt, runAndCheck awaits its delay
suspend(p) ==
  IF p.m.pc = "run" \/ p.who = "none" THEN p
  ELSE IF p.m.pc = "input"
    THEN getInput([p EXCEPT !.m.pc = "idle", !.m.frames = <<>>, !.m.pending = "",
                            !.who = "none"],
                  "input", Call(p.who, "input", p.m.frames, p.m.pending))
  ELSE IF p.who = "repl"
    THEN getInput([p EXCEPT !.who = "none"], "prompt", Call("repl", "prompt", <<>>, ""))
  ELSE [p EXCEPT !.who = "none",
                 !.waiting = Append(@, Call("tutorial", "timer", <<>>, ""))]

\* the interpreter ran as `task` from out = old and reached machine state m
Ran(p, task, old, m) == suspend(Written(called([p EXCEPT !.m = m, !.who = task]), old))

\* TutorialValidator.startCapture
startCapture(p) ==
  IF ~p.validator.interpreterInstance THEN p
  ELSE [p EXCEPT !.validator.isCapturing = TRUE,
                 !.validator.originalCallbacks = p.callbacks.output,
                 !.callbacks.output.wraps = @ + 1]

\* TutorialValidator.stopCapture
stopCapture(p) ==
  IF ~p.validator.isCapturing \/ ~p.validator.interpreterInstance THEN p
  ELSE [p EXCEPT !.validator.isCapturing = FALSE,
                 !.callbacks.output = IF p.validator.originalCallbacks # Null
                                        THEN p.validator.originalCallbacks ELSE @]

\* typeKeys appending the key as it was typed
typeKeysAsTyped(scr, text) ==
  IF scr.container /\ scr.inputMode
    THEN [scr EXCEPT !.inputBuffer = @ \o text] ELSE scr

\* the keydown handler of a screen for the printable keys of text
typeKeys(scr, text) ==
  IF scr.container /\ scr.inputMode
    THEN [scr EXCEPT !.inputBuffer = @ \o ToUpperCase(text)] ELSE scr

\* the keydown handler of a screen for Enter, up to the call of inputResolve
enterKey(scr) ==
  IF scr.container /\ scr.inputMode
    THEN [scr EXCEPT !.inputBuffer = "", !.inputMode = FALSE, !.inputResolve = 0] ELSE scr

Remove(seq, i) == SubSeq(seq, 1, i - 1) \o SubSeq(seq, i + 1, Len(seq))

Position(seq, Test(_)) == CHOOSE i \in 1..Len(seq) : Test(seq[i]) /\ \A j \in 1..(i - 1) : ~Test(seq[j])

\* the call waiting[i] continues with the text its promise resolved to: the
\* REPL passes it to executeImmediate, executeInput assigns it
resume(p, i, input) ==
  IF p.waiting[i].at = "prompt"
    THEN Ran([p EXCEPT !.waiting = Remove(@, i)], "repl", <<>>,
             executeImmediate(Begin(p.m), input))
    ELSE Ran([p EXCEPT !.waiting = Remove(@, i)], p.waiting[i].task, p.m.st.out,
             resumeInput([p.m EXCEPT !.frames = p.waiting[i].frames, !.pc = "input",
                                     !.pending = p.waiting[i].pending], input))

\* inputResolve(input): the promise id is resolved and its awaiting call continues
resolve(p, id, input) ==
  IF id = 0 THEN p
  ELSE IF \E i \in 1..Len(p.waiting) : p.waiting[i].req = id
    THEN resume([p EXCEPT !.requests[id].resolved = @ + 1],
                Position(p.waiting, LAMBDA w : w.req = id), input)
  ELSE [p EXCEPT !.requests[id].resolved = @ + 1]

\* the playground tab is opened: AppleIIEnvironment.init up to the first
\* await of startREPL
OpenPlayground ==
  /\ pc = "idle" /\ ~screen.container
  /\ PageBecomes(Ran([P EXCEPT !.screen.container = TRUE,
                               !.callbacks = [output |-> ScreenCallback, input |-> TRUE]],
                     "repl", out, M))

\* the tutorial renders a lesson: cleanup, then initializeMiniTerminal
RenderLesson ==
  /\ pc = "idle"
  /\ PageBecomes([stopCapture(P) EXCEPT
                    !.validator.interpreterInstance = TRUE,
                    !.mini = [NoScreen EXCEPT !.container = TRUE, !.inputMode = TRUE]])

\* the keys of text are typed, on an empty line of every screen that takes them
TypeText(text) ==
  /\ pc = "idle"
  /\ (screen.container /\ screen.inputMode) \/ (mini.container /\ mini.inputMode)
  /\ (screen.container /\ screen.inputMode) => screen.inputBuffer = ""
  /\ (mini.container /\ mini.inputMode) => mini.inputBuffer = ""
  /\ PageBecomes([P EXCEPT !.screen = typeKeys(@, text), !.mini = typeKeys(@, text)])

\* Enter is pressed: both keydown handlers, then the call the promise resumes
PressEnter ==
  /\ pc = "idle"
  /\ (screen.container /\ screen.inputMode) \/ (mini.container /\ mini.inputMode)
  /\ PageBecomes(resolve([P EXCEPT !.screen = enterKey(@), !.mini = enterKey(@)],
                         IF screen.container /\ screen.inputMode THEN screen.inputResolve ELSE 0,
                         screen.inputBuffer))

\* runAndCheck after startCapture, with the code read from the mini screen
checkCode(p, userCode) ==
  IF userCode = "" THEN p
  ELSE Ran(p, "tutorial", <<>>, executeImmediate(Begin(p.m), userCode))

\* the tutorial's Run & Check button: runAndCheck up to its first await
RunAndCheck ==
  /\ pc = "idle" /\ mini.container
  /\ PageBecomes(checkCode(startCapture(P), Trim(mini.inputBuffer)))

\* the 100 ms delay of the oldest waiting runAndCheck ends: stopCapture, validate
DelayEnds ==
  /\ pc = "idle"
  /\ \E i \in 1..Len(waiting) : waiting[i].at = "timer"
  /\ PageBecomes(stopCapture([P EXCEPT !.waiting =
                   Remove(@, Position(waiting, LAMBDA w : w.at = "timer"))]))

\* the playground's RESET button: AppleIIEnvironment.reset
ResetClick ==
  /\ pc = "idle" /\ screen.container
  /\ PageBecomes(Written([P EXCEPT !.m.st = executeNew([@ EXCEPT !.out = <<>>])], <<>>))

\* the tutorial's reset button: resetExercise
ResetExercise ==
  /\ pc = "idle" /\ mini.container
  /\ PageBecomes(Written([P EXCEPT !.mini.inputMode = TRUE,
                                   !.m.st = executeNew([@ EXCEPT !.out = <<>>])], <<>>))

\* the next iteration of the for loop of the run() in progress
PageRunIteration ==
  /\ pc = "run"
  /\ Len(trace) < MaxSteps
  /\ PageBecomes(Ran(P, who, out, runIteration(M)))

NextPage ==
  \/ OpenPlayground
  \/ RenderLesson
  \/ \E text \in PageTexts : TypeText(text)
  \/ PressEnter
  \/ RunAndCheck
  \/ DelayEnds
  \/ ResetClick
  \/ ResetExercise
  \/ PageRunIteration

SpecPage == Init /\ [][NextPage]_vars

(***************************************************************************)
(* Properties                                                              *)
(***************************************************************************)
Last(seq) == seq[Len(seq)]

IsPrefix(a, b) == Len(a) <= Len(b) /\ SubSeq(b, 1, Len(a)) = a

Println(text) == [op |-> "println", text |-> text]

\* the next line a run() in progress executes
Upcoming(fs) == fs[Len(fs)].lines[fs[Len(fs)].i + 1]

\* the lowest and the next higher stored line number
Lowest(keys) == CHOOSE k \in keys : \A j \in keys : ~NumLess(j, k)
Higher(keys, line) == {k \in keys : NumLess(line, k)}

\* a RUN issued in machine state m, followed to its end or for MaxSteps lines
RECURSIVE RunToEnd(_, _)
RunToEnd(m, fuel) ==
  IF m.pc # "run" \/ fuel = 0 THEN m ELSE RunToEnd(runIteration(m), fuel - 1)

RunFrom(m) ==
  RunToEnd(run([m EXCEPT !.st.out = <<>>, !.trace = <<>>, !.err = FALSE]), MaxSteps)

\* a fresh session holding only the stored program prog
Fresh(prog) ==
  [st |-> [program |-> prog, variables |-> EmptyMap, forStack |-> <<>>,
           currentLine |-> IntV(0), running |-> FALSE, nextLine |-> Undefined, out |-> <<>>],
   frames |-> <<>>, pc |-> "idle", pending |-> "", trace |-> <<>>, err |-> FALSE]

\* the bindings present before are kept, new ones hold the default of a read
VariablesKept ==
  /\ \A v \in DOMAIN variables : v \in DOMAIN variables' /\ variables'[v] = variables[v]
  /\ \A v \in DOMAIN variables' \ DOMAIN variables :
       variables'[v] = IF EndsWith(v, "$") THEN StrV("") ELSE IntV(0)

\* C1: the stored program 10 FOR I=1 TO 3 / 20 PRINT I / 30 NEXT I, once RUN,
\* prints 1, 2, 3 on a line each and nothing more, and the run then ends with
\* the running flag cleared.
ForProgram ==
  /\ DOMAIN program = {IntV(10), IntV(20), IntV(30)}
  /\ program[IntV(10)].source = "10 FOR I=1 TO 3"
  /\ program[IntV(20)].source = "20 PRINT I"
  /\ program[IntV(30)].source = "30 NEXT I"

C1_ForLoopPrintsRangeOnce ==
  (ForProgram /\ trace # <<>>) =>
     /\ IsPrefix(out, <<Println("1"), Println("2"), Println("3")>>)
     /\ pc = "idle" => (out = <<Println("1"), Println("2"), Println("3")>> /\ ~running)

\* C2: a RUN starts at the lowest stored line; after a line that executed
\* without error (and was not END) the next line executed is the jump target
\* that line set, if it set one, and otherwise the next higher stored line; the
\* run ends after the highest line when no jump was set.
C2_RunOrder ==
  [][/\ (pc = "idle" /\ pc' = "run") => Upcoming(frames') = Lowest(DOMAIN program)
     /\ (pc = "run" /\ Len(trace') = Len(trace) + 1) =>
          LET line == Last(trace')
              r == executeNode(program[line].ast,
                               [St EXCEPT !.currentLine = line, !.nextLine = Undefined])
          IN  (r.res = "ok" /\ r.st.running) =>
                IF r.st.nextLine # Undefined
                  THEN pc' = "run" /\ Upcoming(frames') = r.st.nextLine
                ELSE IF Higher(DOMAIN program, line) # {}
                  THEN pc' = "run" /\ Upcoming(frames') = Lowest(Higher(DOMAIN program, line))
                ELSE pc' = "idle"]_vars

\* C3: entering only the number of a stored line deletes that line, and the
\* LIST that follows does not print it.
C3_BareNumberDeletes ==
  [][/\ (ExecuteImmediate("20") /\ Has(program, IntV(20))) => ~Has(program', IntV(20))
     /\ (ExecuteImmediate("LIST") /\ ~Has(program, IntV(20))) =>
          \A i \in 1..Len(out') : ~IsPrefix("20 ", out'[i].text)]_vars

\* C4: a numbered line with a statement, in whatever letter case, is stored
\* with its source and AST under its number, and is not executed: no output,
\* and the variables, the loop stack and the other lines are unchanged.
C4_LineStoredNotExecuted ==
  [][\A line \in StoredLines :
       (Parsed[line].ok /\ ExecuteImmediate(line)) =>
          LET node == Parsed[line].node IN
          /\ Has(program', node.lineNumber)
          /\ program'[node.lineNumber] = [source |-> line, ast |-> node.statement]
          /\ \A k \in DOMAIN program \ {node.lineNumber} :
               Has(program', k) /\ program'[k] = program[k]
          /\ DOMAIN program' \subseteq DOMAIN program \cup {node.lineNumber}
          /\ out' = <<>> /\ variables' = variables /\ forStack' = forStack]_vars

\* the catch block of executeImmediate reported a failure in this step
ImmediateFailed == Len(frames) = 0 /\ Len(frames') = 0 /\ pc' = "idle" /\ err'

\* C5 (as claimed): a line whose tokenizing, parsing or evaluation fails in
\* executeImmediate leaves the program store and the variable environment
\* equal to those before the call.
C5_FailureLeavesEnvironmentEqual ==
  [][ImmediateFailed => (program' = program /\ variables' = variables)]_vars

\* C5 (amended): such a line leaves the program store equal and every variable
\* bound before the call bound to the same value; the only change is that
\* unset variables read before the failure are bound to their default.
C5_FailureKeepsBindings ==
  [][ImmediateFailed =>
       /\ program' = program
       /\ VariablesKept
       /\ Last(out') = [op |-> "print", text |-> Last(out').text]
       /\ SubSeq(Last(out').text, 1, 14) = "?SYNTAX ERROR\n"]_vars

C5_Witness ==
  /\ pc = "idle" /\ err /\ trace = <<>>
  /\ out = <<[op |-> "print", text |-> "?SYNTAX ERROR\n?DIVISION BY ZERO ERROR\n"]>>
  /\ Has(variables, "I") /\ variables["I"] = IntV(1)
  /\ Has(variables, "B") /\ variables["B"] = IntV(0)

\* C6: after a line or RUN that ended with an error, a re-issued RUN of a
\* stored program that runs without error in a fresh session starts at the
\* lowest line and runs to its end without error.
C6_RunAfterError ==
  (pc = "idle" /\ afterErr /\ trace # <<>>) =>
     LET fresh == RunFrom(Fresh(program)) IN
     (fresh.pc = "idle" /\ ~fresh.err) =>
        (~err /\ trace[1] = Lowest(DOMAIN program) /\ Last(trace) = Last(fresh.trace))

\* C7: an immediate-mode GOTO whose target exists changes nothing a later RUN
\* depends on: the RUN issued after it executes the same lines and writes the
\* same output as the RUN issued instead of it.
C7_ImmediateGotoNoEffect ==
  [][(ExecuteImmediate("GOTO 30") /\ ~err') =>
       /\ RunFrom(M').trace = RunFrom(M).trace
       /\ RunFrom(M').st.out = RunFrom(M).st.out]_vars

\* C8 (as claimed): every RUN resets the variable environment and the loop
\* stack to empty at its start and leaves the program store as it is.
C8_RunResets ==
  [][ExecuteImmediate("RUN") =>
       (variables' = EmptyMap /\ forStack' = <<>> /\ program' = program)]_vars

\* C8 (amended): every RUN of a non-empty program store resets the variable
\* environment and the loop stack to empty at its start and leaves the
\* program store as it is; RUN with an empty store only reports ?NO PROGRAM.
C8_RunOfProgramResets ==
  [][ExecuteImmediate("RUN") =>
       /\ program' = program
       /\ IF DOMAIN program # {}
            THEN variables' = EmptyMap /\ forStack' = <<>> /\ pc' = "run" /\ running'
            ELSE /\ variables' = variables /\ forStack' = forStack /\ pc' = "idle"
                 /\ out' = <<[op |-> "print", text |-> "?NO PROGRAM\n"]>>]_vars

C8_Witness ==
  /\ pc = "run" /\ trace = <<>> /\ running
  /\ variables = EmptyMap /\ forStack = <<>>
  /\ nextLine # Undefined

\* C9: a runtime error raised while RUN executes line L aborts the run: the
\* error is printed, L is the last line of the run, the running flag is
\* cleared, and the program store, the variables and the loop stack are as
\* the statement of L left them when the error was raised.
C9_ErrorAbortsRun ==
  [][(Len(frames) > 0 /\ err' /\ ~err) =>
       /\ pc' = "idle" /\ frames' = <<>> /\ ~running'
       /\ IsPrefix(out, out') /\ Len(out') > Len(out)
       /\ Last(out').op = "print" /\ IsPrefix("?", Last(out').text)
       /\ Last(trace') = currentLine'
       /\ program' = program
       /\ IF pc = "run"
            THEN LET r == executeNode(program[Upcoming(frames)].ast,
                                      [St EXCEPT !.currentLine = Upcoming(frames)])
                 IN  variables' = r.st.variables /\ forStack' = r.st.forStack
            ELSE /\ forStack' = forStack
                 /\ DOMAIN variables \subseteq DOMAIN variables'
                 /\ \A v \in DOMAIN variables' \ {pending} :
                      Has(variables, v) /\ variables'[v] = variables[v]]_vars

C9_Witness ==
  /\ pc = "idle" /\ err /\ ~running
  /\ Len(trace) > 0 /\ Last(trace) = IntV(20) /\ Has(program, IntV(30))
  /\ Len(out) > 0 /\ Last(out).text = "?DIVISION BY ZERO ERROR\n"
  /\ Has(variables, "B")

\* C10: GOTO n with n not in the program store raises ?UNDEF'D STATEMENT ERROR
\* and records no pending jump; in immediate mode the error is reported for
\* that line, in RUN the run is aborted at that line.
GotoLine(line) == Parsed[line].ok /\ Parsed[line].node.type = "GOTO"

C10_UndefinedGoto ==
  [][/\ \A line \in ImmediateLines :
          (GotoLine(line) /\ ~Has(program, Parsed[line].node.lineNumber)
             /\ ExecuteImmediate(line)) =>
            /\ err' /\ pc' = "idle" /\ nextLine' = nextLine
            /\ out' = <<[op |-> "print", text |-> "?SYNTAX ERROR\n?UNDEF'D STATEMENT ERROR\n"]>>
     /\ (pc = "run" /\ Len(trace') = Len(trace) + 1
           /\ program[Last(trace')].ast.type = "GOTO"
           /\ ~Has(program, program[Last(trace')].ast.lineNumber)) =>
            /\ err' /\ pc' = "idle" /\ ~running' /\ nextLine' = nextLine
            /\ Last(out') = [op |-> "print", text |-> "?UNDEF'D STATEMENT ERROR\n"]]_vars

C10_Witness ==
  /\ pc = "idle" /\ err /\ ~running
  /\ trace = <<IntV(10), IntV(20)>> /\ Has(program, IntV(30))
  /\ program[IntV(20)].ast.type = "GOTO"
  /\ Last(out) = [op |-> "print", text |-> "?UNDEF'D STATEMENT ERROR\n"]
  /\ nextLine = Undefined

\* the two conditions under which executeNext throws
NextWithoutFor(node, fs) ==
  \/ Len(fs) = 0
  \/ node.variable # Null /\ node.variable.s # "" /\ node.variable.s # Last(fs).variable

\* C11: NEXT with an empty loop stack, or naming a variable other than the top
\* frame's, fails with ?NEXT WITHOUT FOR ERROR in immediate mode and in RUN;
\* the loop stack and the variables are then unchanged and no jump target is
\* pending.
C11_NextWithoutFor ==
  [][/\ \A line \in ImmediateLines :
          (Parsed[line].ok /\ Parsed[line].node.type = "NEXT"
             /\ NextWithoutFor(Parsed[line].node, forStack) /\ ExecuteImmediate(line)) =>
            /\ err' /\ pc' = "idle"
            /\ out' = <<[op |-> "print", text |-> "?SYNTAX ERROR\n?NEXT WITHOUT FOR ERROR\n"]>>
            /\ forStack' = forStack /\ variables' = variables /\ nextLine' = Undefined
     /\ (pc = "run" /\ Len(trace') = Len(trace) + 1
           /\ program[Last(trace')].ast.type = "NEXT"
           /\ NextWithoutFor(program[Last(trace')].ast, forStack)) =>
            /\ err' /\ pc' = "idle" /\ ~running'
            /\ Last(out') = [op |-> "print", text |-> "?NEXT WITHOUT FOR ERROR\n"]
            /\ forStack' = forStack /\ variables' = variables /\ nextLine' = Undefined]_vars

\* C12: at most one promise of getInput is pending at any time, every
\* pending promise is the one the next Enter keystroke resolves, and no promise
\* is resolved twice, whatever REPL prompts, INPUT statements and Run & Check
\* executions the page has seen.
C12_InputRequests ==
  /\ Cardinality({id \in 1..Len(requests) : requests[id].resolved = 0}) <= 1
  /\ \A id \in 1..Len(requests) :
       /\ requests[id].resolved = 0 => (screen.inputMode /\ screen.inputResolve = id)
       /\ requests[id].resolved <= 1

\* C13: while a RUN is suspended at an INPUT statement whose promise is not
\* yet resolved, no step of the page changes the program store, the variables
\* or the loop stack, the RESET button and Run & Check included.
C13_SuspendedRunIsolated ==
  [][\A i \in 1..Len(waiting) :
       (waiting[i].at = "input" /\ Len(waiting[i].frames) > 0
          /\ requests'[waiting[i].req].resolved = 0) =>
         (program' = program /\ variables' = variables /\ forStack' = forStack)]_vars

\* C14: once no capture is in progress the interpreter's output and
\* outputLine callbacks are the registered ones, with no capture wrapper
\* left around them, after any sequence of Run & Check clicks.
C14_CallbacksRestored ==
  ~validator.isCapturing => callbacks.output.wraps = 0

\* the fixed tokens of the error taxonomy
ErrorTokens ==
  {"?SYNTAX ERROR", "?UNDEF'D STATEMENT ERROR", "?TYPE MISMATCH ERROR",
   "?NEXT WITHOUT FOR ERROR", "?DIVISION BY ZERO ERROR"}

\* a catch block of executeImmediate or of run() reported an error in this step
Caught == err' /\ (pc = "idle" \/ ~err)

\* C15: every error text written by the catch block of executeImmediate or of
\* run() begins with one of the fixed tokens.
C15_ErrorTextsFixed ==
  [][Caught => \E token \in ErrorTokens : IsPrefix(token, Last(out').text)]_vars

\* the writes print and println made
Writes(o) == Len(SelectSeq(o, LAMBDA w : w.op \in {"print", "println"}))

\* this step of the page begins an executeImmediate call on a non-blank line
Began ==
  \/ Trim(mini.inputBuffer) # "" /\ RunAndCheck
  \/ /\ screen.container /\ screen.inputMode /\ Trim(screen.inputBuffer) # ""
     /\ \E i \in 1..Len(waiting) :
          waiting[i].req = screen.inputResolve /\ waiting[i].at = "prompt"
     /\ PressEnter

\* C16: every failure raised while executeImmediate or run() processes a line
\* is caught there and makes at least one write to the output.
C16_FailureWritten ==
  [][(err' /\ (~err \/ Began)) =>
       Writes(out') > (IF Began THEN 0 ELSE Writes(out))]_vars

\* the entered source without its own leading line number: the text from the
\* first token after the number on
StatementText(source) ==
  Substring(Trim(source), Tokenized[source].tokens[2].position, Len(Trim(source)))

\* the stored line numbers LIST start-end selects, each bound defaulting to
\* the end of the program
Listed(prog, node) ==
  {k \in DOMAIN prog : /\ node.start # Null => ~NumLess(k, node.start)
                       /\ node.end # Null => ~NumLess(node.end, k)}

\* C17: LIST on a non-empty program store prints exactly the stored lines in
\* the range, in ascending order of line number, each as the line number, one
\* space and the entered source without its own leading line number.
C17_ListPrintsRange ==
  [][\A line \in StatementLines :
       (Parsed[line].ok /\ Parsed[line].node.type = "LIST" /\ DOMAIN program # {}
          /\ ExecuteImmediate(line)) =>
         LET keys == SortedKeys(Listed(program, Parsed[line].node))
         IN  out' = [i \in 1..Len(keys) |->
                       Println(JsString(keys[i]) \o " "
                                 \o StatementText(program[keys[i]].source))]]_vars

\* C18: NEW leaves the program store, the variable environment and the loop
\* stack all empty, whatever they held before.
C18_NewClearsAll ==
  [][ExecuteImmediate("NEW") =>
       (program' = EmptyMap /\ variables' = EmptyMap /\ forStack' = <<>>)]_vars

\* NEW has cleared a store that held line 30: only GOTO 30 with line 30 stored
\* leaves nextLine = 30, and no line of the session deletes line 30
C18_Witness ==
  /\ pc = "idle" /\ out = <<Println("")>> /\ nextLine = IntV(30)
  /\ program = EmptyMap /\ variables = EmptyMap /\ forStack = <<>>

\* C19: every key of the program store is a positive integer.
C19_KeysPositiveIntegers ==
  \A k \in DOMAIN program : IsNum(k) /\ k.d = 1 /\ k.n > 0

\* the string forms of the expressions of a PRINT from the i-th on, nothing
\* between them for `;` and 5 spaces for `,`
RECURSIVE Joined(_, _, _)
Joined(node, vs, i) ==
  IF i > Len(node.expressions) THEN ""
  ELSE JsString(evaluate(node.expressions[i], vs).value)
         \o (IF i <= Len(node.separators) /\ node.separators[i] = "," THEN "     " ELSE "")
         \o Joined(node, vs, i + 1)

\* what a PRINT writes: with a newline unless its last separator is `;`
Printed(node, vs) ==
  [op |-> IF Len(node.separators) > 0 /\ Last(node.separators) = ";" THEN "print"
                                                                      ELSE "println",
   text |-> Joined(node, vs, 1)]

\* C20: PRINT writes the string forms of its expressions from left to right,
\* nothing for a `;` and 5 spaces for a `,` after an expression, in one write
\* that ends with a newline unless the last separator is `;`; PRINT without
\* an expression writes an empty line.  In immediate mode and in RUN.
C20_PrintFormat ==
  [][/\ \A line \in StatementLines :
          (Parsed[line].ok /\ Parsed[line].node.type = "PRINT" /\ ExecuteImmediate(line)) =>
            /\ out' = <<Printed(Parsed[line].node, variables)>>
            /\ Parsed[line].node.expressions = <<>> => out' = <<Println("")>>
     /\ (pc = "run" /\ Len(trace') = Len(trace) + 1
           /\ Has(program, Last(trace')) /\ program[Last(trace')].ast.type = "PRINT") =>
            out' = Append(out, Printed(program[Last(trace')].ast, variables))]_vars

C20_Witness ==
  /\ pc = "idle" /\ ~err
  /\ out = <<Println("0.5B     ")>>
  /\ Has(variables, "A") /\ variables["A"] = NumV(1, 2)

\* a text that is a number: optional sign, digits with at most one decimal
\* point, nothing else but surrounding spaces
NumericText(text) ==
  LET t == Trim(text)
      u == IF t # "" /\ Head(t) \in {"-", "+"} THEN Tail(t) ELSE t
      ip == TakeDigits(u)
      rest == SubSeq(u, Len(ip) + 1, Len(u))
      fp == IF rest # "" /\ Head(rest) = "." THEN TakeDigits(Tail(rest)) ELSE ""
  IN  /\ ip \o fp # ""
      /\ rest = (IF rest # "" /\ Head(rest) = "." THEN "." \o fp ELSE "")

\* C21: INPUT calls the input callback once, with the statement's prompt or
\* `? `, and waits; the text it gets is bound as it is to a variable whose
\* name ends in $, its number is bound to any other variable, and a text that
\* is not numeric fails with ?TYPE MISMATCH ERROR and leaves the variable as
\* it was.
C21_InputBinds ==
  [][/\ (pc # "input" /\ pc' = "input") =>
          /\ Len(SelectSeq(out', LAMBDA w : w.op = "input"))
               = 1 + (IF pc = "idle" THEN 0 ELSE Len(SelectSeq(out, LAMBDA w : w.op = "input")))
          /\ Last(out').op = "input" /\ Last(out').text # ""
     /\ \A input \in InputTexts :
          (pc = "input" /\ ResolveInput(input)) =>
            IF EndsWith(pending, "$")
              THEN Has(variables', pending) /\ variables'[pending] = StrV(input)
            ELSE IF NumericText(input)
              THEN Has(variables', pending) /\ variables'[pending] = parseFloat(input)
            ELSE /\ err' /\ pc' = "idle"
                 /\ Last(out') = [op |-> "print", text |-> "?TYPE MISMATCH ERROR\n"]
                 /\ variables' = variables]_vars

(***************************************************************************)
(* The tokenizer and the parser called on their own: each behaviour makes  *)
(* calls of BasicTokenizer.tokenize, or one call of tokenize and           *)
(* BasicParser.parse as executeImmediate makes them, and `calls` keeps     *)
(* every argument with what the call returned.                             *)
(***************************************************************************)
\* the tokenize calls explored in one behaviour
MaxCalls == 3

\* the operands of the longest expression explored
MaxOperands == 3

TokenLines == {"10 PRINT \"HI\";A", "A<=B", "A<>B", "A>=B", "A< =B", "print a",
               "PRINT @", "X1$=2.5", "\"AB", "", "IF A<B THEN 20", "1.2.3"}

\* the primaries and the binary operators expression texts are built from
Primaries == {"A", "-2", "(A<2)"}
BinaryOperators == {"+", "-", "*", "/", "<"}

\* the expressions of n operands
RECURSIVE ExprTexts(_)
ExprTexts(n) ==
  IF n = 1 THEN Primaries
  ELSE {text \o op \o primary :
          text \in ExprTexts(n - 1), op \in BinaryOperators, primary \in Primaries}

\* a tokenize call whose token array is the one the call before it left
TokenizeCarrying(line) ==
  /\ Len(calls) < MaxCalls
  /\ calls' = Append(calls,
                     [line |-> line,
                      result |-> tokenizeLoop(Trim(line), 0,
                                              IF calls = <<>> THEN <<>>
                                              ELSE calls[Len(calls)].result.tokens)])
  /\ UNCHANGED <<tutor, program, variables, forStack, currentLine, running, nextLine, out,
                 frames, pc, pending, trace, err, afterErr, page, display>>

\* BasicTokenizer.tokenize(line) called: `tokens` and `pos` are locals of the
\* call, nothing of an earlier call is read
Tokenize(line) ==
  /\ Len(calls) < MaxCalls
  /\ calls' = Append(calls, [line |-> line, result |-> tokenize(line)])
  /\ UNCHANGED <<tutor, program, variables, forStack, currentLine, running, nextLine, out,
                 frames, pc, pending, trace, err, afterErr, page, display>>

\* `PRINT <text>` tokenized and parsed as executeImmediate does
ParseLine(line) ==
  Then(tokenize(line), LAMBDA r : parse(r.tokens))

ParseExpression(text) ==
  /\ calls' = <<[line |-> "PRINT " \o text, result |-> ParseLine("PRINT " \o text)]>>
  /\ UNCHANGED <<tutor, program, variables, forStack, currentLine, running, nextLine, out,
                 frames, pc, pending, trace, err, afterErr, page, display>>

NextTokens == \E line \in TokenLines : Tokenize(line)

SpecTokens == Init /\ [][NextTokens]_vars

NextParse ==
  /\ calls = <<>>
  /\ \E n \in 1..MaxOperands : \E text \in ExprTexts(n) : ParseExpression(text)

SpecParse == Init /\ [][NextParse]_vars

(***************************************************************************)
(* BasicScreen's character grid: buffer is ROWS rows of COLS characters,   *)
(* (cursorX, cursorY) the 0-based cursor.                                  *)
(***************************************************************************)
COLS == 40
ROWS == 24

\* the print and println calls explored in one behaviour
MaxPrints == 4

RECURSIVE Repeat(_, _)
Repeat(c, n) == IF n = 0 THEN "" ELSE c \o Repeat(c, n - 1)

BlankRow == Repeat(" ", COLS)

initBuffer(d) == [buffer |-> [row \in 1..ROWS |-> BlankRow], cursorX |-> 0, cursorY |-> 0]

\* scroll moving the cursor back without moving the rows
scrollKeepingRows(d) == [d EXCEPT !.cursorY = ROWS - 1]

scroll(d) == [d EXCEPT !.buffer = Append(Tail(@), BlankRow), !.cursorY = ROWS - 1]

\* `if (cursorY >= ROWS) scroll()`
scrollPastEnd(d) == IF d.cursorY >= ROWS THEN scroll(d) ELSE d

newline(d) == scrollPastEnd([d EXCEPT !.cursorX = 0, !.cursorY = @ + 1])

\* buffer[cursorY][cursorX] = char; cursorX++
storeChar(d, char) ==
  [d EXCEPT !.buffer[d.cursorY + 1] =
              SubSeq(@, 1, d.cursorX) \o char \o SubSeq(@, d.cursorX + 2, Len(@)),
            !.cursorX = @ + 1]

\* putChar that never wraps to the next row
putCharWithoutWrap(d, char) == storeChar(scrollPastEnd(d), char)

putChar(d, char) ==
  storeChar(scrollPastEnd(IF d.cursorX >= COLS THEN newline(d) ELSE d), char)

\* BasicScreen.print: the loop over the characters of the text (before init
\* the buffer has no rows, and no call is made)
RECURSIVE BasicScreen_print(_, _)
BasicScreen_print(d, str) ==
  IF str = "" \/ d.buffer = <<>> THEN d
  ELSE BasicScreen_print(IF Head(str) = "\n" THEN newline(d) ELSE putChar(d, Head(str)),
                         Tail(str))

BasicScreen_println(d, text) == BasicScreen_print(d, text \o "\n")

\* the lines `from`..`to`, each ended by a line break
RECURSIVE Listing(_, _)
Listing(from, to) ==
  IF from > to THEN "" ELSE "L" \o ToString(from) \o "\n" \o Listing(from + 1, to)

\* the texts printed: a word, nothing, a text one character wider than the
\* screen, and a listing that ends on the row before the last
ScreenTexts == {"HI", "", Repeat("W", COLS + 1), Listing(1, ROWS - 2)}

\* BasicScreen.init(container)
InitDisplay ==
  /\ display = NoDisplay
  /\ display' = initBuffer(display)
  /\ screen' = [screen EXCEPT !.container = TRUE]
  /\ UNCHANGED <<tutor, program, variables, forStack, currentLine, running, nextLine, out,
                 frames, pc, pending, trace, err, afterErr, calls,
                 mini, callbacks, validator, requests, waiting, who>>

ScreenPrint(text) ==
  /\ display # NoDisplay
  /\ Len(calls) < MaxPrints
  /\ display' = BasicScreen_print(display, text)
  /\ calls' = Append(calls, [line |-> text, result |-> "print"])
  /\ UNCHANGED <<tutor, program, variables, forStack, currentLine, running, nextLine, out,
                 frames, pc, pending, trace, err, afterErr, page>>

ScreenPrintln(text) ==
  /\ display # NoDisplay
  /\ Len(calls) < MaxPrints
  /\ display' = BasicScreen_println(display, text)
  /\ calls' = Append(calls, [line |-> text, result |-> "println"])
  /\ UNCHANGED <<tutor, program, variables, forStack, currentLine, running, nextLine, out,
                 frames, pc, pending, trace, err, afterErr, page>>

NextScreen ==
  \/ InitDisplay
  \/ \E text \in ScreenTexts : ScreenPrint(text)
  \/ \E text \in ScreenTexts : ScreenPrintln(text)

SpecScreen == Init /\ [][NextScreen]_vars

(***************************************************************************)
(* Line input on one BasicScreen: getInput called by a caller that awaits  *)
(* its promise, and the keys pressed after it.  `calls` keeps the          *)
(* inputResolve calls: the promise and the text it was resolved with.      *)
(***************************************************************************)
\* the getInput calls explored in one behaviour
MaxInputs == 2

\* the characters accumulated in one input line
MaxKeys == 2

Keys == {"a", "B", "Backspace", "Enter", "Shift"}

Prompts == {"", "? "}

\* the keydown handler of a screen for Backspace
backspaceKey(scr) ==
  IF scr.container /\ scr.inputMode /\ Len(scr.inputBuffer) > 0
    THEN [scr EXCEPT !.inputBuffer = SubSeq(@, 1, Len(@) - 1)] ELSE scr

\* keyHandler and handleInputKeydown on the screen's input state
handleInputKeydown(scr, key) ==
  IF key = "Enter" THEN enterKey(scr)
  ELSE IF key = "Backspace" THEN backspaceKey(scr)
  ELSE IF Len(key) = 1 THEN typeKeys(scr, key)
  ELSE scr

\* getInput(prompt) called while no input line is open, as the REPL loop and
\* an INPUT statement it runs do one after the other
AskInput(prompt) ==
  /\ screen.container /\ ~screen.inputMode
  /\ Len(requests) < MaxInputs
  /\ display' = (IF prompt # "" THEN BasicScreen_print(display, prompt) ELSE display)
  /\ screen' = [screen EXCEPT !.inputMode = TRUE, !.inputBuffer = "",
                              !.inputResolve = Len(requests) + 1]
  /\ requests' = Append(requests, [by |-> "caller", resolved |-> 0])
  /\ UNCHANGED <<tutor, program, variables, forStack, currentLine, running, nextLine, out,
                 frames, pc, pending, trace, err, afterErr, calls,
                 mini, callbacks, validator, waiting, who>>

\* a keydown event whose printable key is echoed on the grid
KeyDownEchoing(key) ==
  /\ (Len(key) = 1 /\ screen.inputMode) => Len(screen.inputBuffer) < MaxKeys
  /\ screen' = handleInputKeydown(screen, key)
  /\ IF key = "Enter" /\ screen.container /\ screen.inputMode
       THEN /\ display' = newline(display)
            /\ IF screen.inputResolve # 0
                 THEN /\ calls' = Append(calls, [line |-> screen.inputBuffer,
                                                 result |-> screen.inputResolve])
                      /\ requests' = [requests EXCEPT ![screen.inputResolve].resolved = @ + 1]
                 ELSE UNCHANGED <<calls, requests>>
       ELSE /\ display' = (IF Len(key) = 1 /\ screen.container /\ screen.inputMode
                             THEN putChar(display, ToUpperCase(key)) ELSE display)
            /\ UNCHANGED <<calls, requests>>
  /\ UNCHANGED <<tutor, program, variables, forStack, currentLine, running, nextLine, out,
                 frames, pc, pending, trace, err, afterErr,
                 mini, callbacks, validator, waiting, who>>

\* a keydown event
KeyDown(key) ==
  /\ (Len(key) = 1 /\ screen.inputMode) => Len(screen.inputBuffer) < MaxKeys
  /\ screen' = handleInputKeydown(screen, key)
  /\ IF key = "Enter" /\ screen.container /\ screen.inputMode
       THEN /\ display' = newline(display)
            /\ IF screen.inputResolve # 0
                 THEN /\ calls' = Append(calls, [line |-> screen.inputBuffer,
                                                 result |-> screen.inputResolve])
                      /\ requests' = [requests EXCEPT ![screen.inputResolve].resolved = @ + 1]
                 ELSE UNCHANGED <<calls, requests>>
       ELSE UNCHANGED <<display, calls, requests>>
  /\ UNCHANGED <<tutor, program, variables, forStack, currentLine, running, nextLine, out,
                 frames, pc, pending, trace, err, afterErr,
                 mini, callbacks, validator, waiting, who>>

NextKeys ==
  \/ InitDisplay
  \/ \E prompt \in Prompts : AskInput(prompt)
  \/ \E key \in Keys : KeyDown(key)

SpecKeys == Init /\ [][NextKeys]_vars

(***************************************************************************)
(* One BasicScreen under all its callers: print, println and clear by the  *)
(* interpreter's callbacks and the RESET button, getInput by the REPL and  *)
(* by INPUT, and the key events.                                           *)
(***************************************************************************)
\* the texts written: nothing, a text that fills a row to its last cell, and
\* a listing that ends on the last row
DisplayTexts == {"", Repeat("W", COLS), Listing(1, ROWS - 1)}

\* the keys pressed
DisplayKeys == {"a", "Backspace", "Enter", "Shift"}

\* the texts written and lines entered in one behaviour
MaxWrites == 2

\* BasicScreen.clear()
ScreenClear ==
  /\ display # NoDisplay
  /\ display' = initBuffer(display)
  /\ UNCHANGED <<tutor, program, variables, forStack, currentLine, running, nextLine, out,
                 frames, pc, pending, trace, err, afterErr, calls, page>>

NextDisplay ==
  \/ InitDisplay
  \/ Len(calls) < MaxWrites /\ \E text \in DisplayTexts : ScreenPrint(text)
  \/ Len(calls) < MaxWrites /\ \E text \in DisplayTexts : ScreenPrintln(text)
  \/ ScreenClear
  \/ \E prompt \in Prompts : AskInput(prompt)
  \/ \E key \in DisplayKeys : KeyDown(key)

SpecDisplay == Init /\ [][NextDisplay]_vars

(***************************************************************************)
(* TutorialEngine and Progress.  lessonStatus is the object of the         *)
(* source, kept as the sequence of its [id, status] entries in insertion   *)
(* order; progress[eventId] is Progress.state.events[eventId]              *)
(* .lessonsCompleted, the key being the string the event id converts to.   *)
(* init awaits the fetch of the tutorial data: InitBegins is init up to    *)
(* the await, InitLoads and InitFails are what the arrived response runs.  *)
(***************************************************************************)
\* the events with a tutorial and the lesson ids of their tutorials.json
Events == {"apple-ii", "altair"}

Tutorials ==
  [eventId \in Events |->
     IF eventId = "apple-ii" THEN <<"lesson-1", "lesson-2", "lesson-3">>
     ELSE <<"lesson-1", "lesson-2">>]

\* the init calls awaiting their data at once, and the init calls in all
MaxFetches == 2
MaxInits == 3

\* Array.prototype.includes
ArrayIncludes(seq, x) == \E i \in 1..Len(seq) : seq[i] = x

\* lessonStatus[id], "undefined" for a missing key
StatusOf(lessonStatus, id) ==
  IF \E i \in 1..Len(lessonStatus) : lessonStatus[i].id = id
    THEN lessonStatus[CHOOSE i \in 1..Len(lessonStatus) : lessonStatus[i].id = id].status
    ELSE "undefined"

\* lessonStatus[id] = status
SetStatus(lessonStatus, id, status) ==
  IF \E i \in 1..Len(lessonStatus) : lessonStatus[i].id = id
    THEN [i \in 1..Len(lessonStatus) |->
            IF lessonStatus[i].id = id THEN [id |-> id, status |-> status] ELSE lessonStatus[i]]
    ELSE Append(lessonStatus, [id |-> id, status |-> status])

\* Progress.getEventProgress: the entry of the event is created when missing
getEventProgress(prog, eventId) ==
  IF Has(prog, eventId) THEN prog ELSE Put(prog, eventId, <<>>)

\* markLessonCompleted that pushes the lesson whether it is recorded or not
markLessonCompletedAgain(prog, eventId, lessonId) ==
  [getEventProgress(prog, eventId) EXCEPT ![eventId] = Append(@, lessonId)]

\* Progress.markLessonCompleted
markLessonCompleted(prog, eventId, lessonId) ==
  IF ArrayIncludes(getEventProgress(prog, eventId)[eventId], lessonId)
    THEN getEventProgress(prog, eventId)
    ELSE [getEventProgress(prog, eventId) EXCEPT ![eventId] = Append(@, lessonId)]

\* loadProgress: the forEach over the lessons from the i-th on
RECURSIVE loadStatuses(_, _, _, _)
loadStatuses(lessonStatus, lessons, completedLessons, i) ==
  IF i > Len(lessons) THEN lessonStatus
  ELSE loadStatuses(SetStatus(lessonStatus, lessons[i],
                              IF ArrayIncludes(completedLessons, lessons[i])
                                THEN "completed" ELSE "pending"),
                    lessons, completedLessons, i + 1)

\* TutorialEngine.loadProgress, on the engine state
loadProgress(eng, prog) ==
  [eng EXCEPT !.lessonStatus =
     loadStatuses(@, eng.lessons, getEventProgress(prog, eng.eventId)[eng.eventId], 1)]

isLessonCompleted(eng, lessonId) == StatusOf(eng.lessonStatus, lessonId) = "completed"

\* the 0-based indexes of the lessons that are not completed
Incomplete(eng) ==
  {i \in 0..(Len(eng.lessons) - 1) : ~isLessonCompleted(eng, eng.lessons[i + 1])}

goToFirstIncomplete(eng) ==
  [eng EXCEPT !.currentLessonIndex =
     IF Incomplete(eng) # {}
       THEN CHOOSE i \in Incomplete(eng) : \A j \in Incomplete(eng) : i <= j
       ELSE Len(eng.lessons) - 1]

\* isLessonAccessible of a lesson whatever the lesson before it is
isLessonAccessibleAlways(eng, index) == TRUE

isLessonAccessible(eng, index) ==
  IF index = 0 THEN TRUE
  ELSE IF index - 1 \notin 0..(Len(eng.lessons) - 1) THEN FALSE
  ELSE isLessonCompleted(eng, eng.lessons[index])

goToLesson(eng, index) ==
  IF index < 0 \/ index >= Len(eng.lessons) THEN [eng EXCEPT !.returned = FALSE]
  ELSE IF ~isLessonAccessible(eng, index) THEN [eng EXCEPT !.returned = FALSE]
  ELSE [eng EXCEPT !.currentLessonIndex = index, !.returned = TRUE]

nextLesson(eng) ==
  IF eng.currentLessonIndex + 1 < Len(eng.lessons)
    THEN goToLesson(eng, eng.currentLessonIndex + 1)
    ELSE [eng EXCEPT !.returned = FALSE]

previousLesson(eng) ==
  IF eng.currentLessonIndex - 1 >= 0
    THEN [eng EXCEPT !.currentLessonIndex = @ - 1, !.returned = TRUE]
    ELSE [eng EXCEPT !.returned = FALSE]

\* syncProgress: the forEach over the keys of lessonStatus from the i-th on
RECURSIVE syncProgress(_, _, _)
syncProgress(eng, prog, i) ==
  IF i > Len(eng.lessonStatus) THEN prog
  ELSE syncProgress(eng,
                    IF eng.lessonStatus[i].status = "completed"
                      THEN markLessonCompleted(prog, eng.eventId, eng.lessonStatus[i].id)
                      ELSE prog,
                    i + 1)

\* getCurrentLesson() is not null
HasCurrentLesson(eng) ==
  eng.currentLessonIndex >= 0 /\ eng.currentLessonIndex < Len(eng.lessons)

\* completeCurrentLesson: the lessonStatus it leaves
completeCurrentLesson(eng) ==
  IF ~HasCurrentLesson(eng) THEN eng
  ELSE [eng EXCEPT !.lessonStatus =
          SetStatus(@, eng.lessons[eng.currentLessonIndex + 1], "completed")]

\* reset: the forEach over the lessons from the i-th on
RECURSIVE resetStatuses(_, _, _)
resetStatuses(lessonStatus, lessons, i) ==
  IF i > Len(lessons) THEN lessonStatus
  ELSE resetStatuses(SetStatus(lessonStatus, lessons[i], "pending"), lessons, i + 1)

getCompletedCount(eng) ==
  Cardinality({i \in 1..Len(eng.lessonStatus) : eng.lessonStatus[i].status = "completed"})

getTotalCount(eng) == Len(eng.lessons)

\* Math.round((completed / total) * 100): halves round upwards
getCompletionPercentage(eng) ==
  IF getTotalCount(eng) = 0 THEN 0
  ELSE (200 * getCompletedCount(eng) + getTotalCount(eng)) \div (2 * getTotalCount(eng))

\* what the tutorial engine never touches
untutored ==
  <<program, variables, forStack, currentLine, running, nextLine, out,
    frames, pc, pending, trace, err, afterErr, page, calls, display>>

\* init(eventId) up to `await this.loadTutorialData(eventId)`
InitBegins(eventId) ==
  /\ Len(engine.fetching) < MaxFetches
  /\ engine.inits < MaxInits
  /\ engine' = [engine EXCEPT !.eventId = eventId, !.isLoaded = FALSE,
                              !.fetching = Append(@, eventId), !.inits = @ + 1]
  /\ UNCHANGED <<progress, untutored>>

\* the tutorial data of a pending init arrives: the rest of its try block
InitLoads(i) ==
  /\ i \in 1..Len(engine.fetching)
  /\ engine' = [goToFirstIncomplete(
                  loadProgress([engine EXCEPT !.lessons = Tutorials[engine.fetching[i]],
                                              !.fetching = Remove(@, i)],
                               progress))
                EXCEPT !.isLoaded = TRUE]
  /\ progress' = getEventProgress(progress, engine.eventId)
  /\ UNCHANGED untutored

\* the fetch of a pending init fails: init rethrows the error
InitFails(i) ==
  /\ i \in 1..Len(engine.fetching)
  /\ engine' = [engine EXCEPT !.fetching = Remove(@, i)]
  /\ UNCHANGED <<progress, untutored>>

GoToLesson(index) ==
  /\ engine' = goToLesson(engine, index)
  /\ UNCHANGED <<progress, untutored>>

NextLesson ==
  /\ engine' = nextLesson(engine)
  /\ UNCHANGED <<progress, untutored>>

PreviousLesson ==
  /\ engine' = previousLesson(engine)
  /\ UNCHANGED <<progress, untutored>>

CompleteCurrentLesson ==
  /\ engine' = completeCurrentLesson(engine)
  /\ progress' = (IF HasCurrentLesson(engine)
                    THEN syncProgress(completeCurrentLesson(engine), progress, 1)
                    ELSE progress)
  /\ UNCHANGED untutored

\* TutorialEngine.reset
ResetTutorial ==
  /\ engine' = [engine EXCEPT !.lessonStatus = resetStatuses(@, engine.lessons, 1),
                              !.currentLessonIndex = 0]
  /\ progress' = [getEventProgress(progress, engine.eventId) EXCEPT ![engine.eventId] = <<>>]
  /\ UNCHANGED untutored

\* the indexes a caller passes to goToLesson
Indexes == -1..3

NextTutorial ==
  \/ \E eventId \in Events : InitBegins(eventId)
  \/ \E i \in 1..MaxFetches : InitLoads(i)
  \/ \E i \in 1..MaxFetches : InitFails(i)
  \/ \E index \in Indexes : GoToLesson(index)
  \/ NextLesson
  \/ PreviousLesson
  \/ CompleteCurrentLesson
  \/ ResetTutorial

SpecTutorial == Init /\ [][NextTutorial]_vars

\* the reference grammar: comparison < additive < multiplicative < primary,
\* every binary level associating to the left, computed by splitting the
\* tokens at the last operator of the loosest level that stands outside
\* every parenthesis and has an operand on its left
Levels == <<{"=", "<>", "<", ">", "<=", ">="}, {"+", "-"}, {"*", "/"}>>

Opens(tokens, i) ==
  Cardinality({k \in 1..(i - 1) : tokens[k] = [type |-> "PUNCTUATION", value |-> StrV("(")]})
  - Cardinality({k \in 1..(i - 1) : tokens[k] = [type |-> "PUNCTUATION", value |-> StrV(")")]})

EndsOperand(token) ==
  \/ token.type \in {"NUMBER", "STRING", "IDENTIFIER"}
  \/ token = [type |-> "PUNCTUATION", value |-> StrV(")")]

SplitsAt(tokens, level) ==
  {i \in 2..Len(tokens) :
     /\ tokens[i].type = "OPERATOR" /\ tokens[i].value.s \in Levels[level]
     /\ EndsOperand(tokens[i - 1])
     /\ Opens(tokens, i) = 0}

Greatest(S) == CHOOSE i \in S : \A k \in S : k <= i

\* NoNode when the tokens are no expression of the grammar
RECURSIVE Reference(_, _)
Reference(tokens, level) ==
  IF tokens = <<>> THEN NoNode
  ELSE IF level <= 3 THEN
    IF SplitsAt(tokens, level) = {} THEN Reference(tokens, level + 1)
    ELSE LET i == Greatest(SplitsAt(tokens, level))
             left == Reference(SubSeq(tokens, 1, i - 1), level)
             right == Reference(SubSeq(tokens, i + 1, Len(tokens)), level + 1)
         IN  IF left = NoNode \/ right = NoNode THEN NoNode
             ELSE [type |-> "BINARY", operator |-> tokens[i].value.s,
                   left |-> left, right |-> right]
  ELSE IF Len(tokens) = 1 /\ tokens[1].type \in {"NUMBER", "STRING"}
    THEN [type |-> tokens[1].type, value |-> tokens[1].value]
  ELSE IF Len(tokens) = 1 /\ tokens[1].type = "IDENTIFIER"
    THEN [type |-> "VARIABLE", name |-> tokens[1].value.s]
  ELSE IF tokens[1] = [type |-> "OPERATOR", value |-> StrV("-")]
    THEN LET operand == Reference(Tail(tokens), 4)
         IN  IF operand = NoNode THEN NoNode
             ELSE [type |-> "UNARY", operator |-> "-", operand |-> operand]
  ELSE IF /\ Len(tokens) > 2
          /\ tokens[1] = [type |-> "PUNCTUATION", value |-> StrV("(")]
          /\ tokens[Len(tokens)] = [type |-> "PUNCTUATION", value |-> StrV(")")]
          /\ \A i \in 2..Len(tokens) : Opens(tokens, i) >= 1
          /\ Opens(tokens, Len(tokens) + 1) = 0
    THEN Reference(SubSeq(tokens, 2, Len(tokens) - 1), 1)
  ELSE NoNode

\* the tokens of an expression text, without positions and without the EOL
ExprTokens(text) ==
  LET tokens == tokenize(text).tokens
  IN  [i \in 1..(Len(tokens) - 1) |-> [type |-> tokens[i].type, value |-> tokens[i].value]]

ExprOf(line) == SubSeq(line, Len("PRINT ") + 1, Len(line))

\* the parser's result is a PRINT of the one expression tree
Agrees(result, tree) ==
  /\ tree # NoNode
  /\ result.ok
  /\ result.node.type = "PRINT"
  /\ result.node.expressions = <<tree>>

\* C22: for every expression text parsed as the argument of PRINT, the
\* parser succeeds and the expression tree it builds is the tree of the
\* reference grammar: `*` `/` tighter than `+` `-`, these tighter than the
\* comparisons, left association, unary minus on a primary, parentheses
\* overriding
C22_ParseFollowsGrammar ==
  \A i \in 1..Len(calls) :
    Agrees(calls[i].result, Reference(ExprTokens(ExprOf(calls[i].line)), 1))

C22_Witness ==
  /\ calls # <<>>
  /\ calls[1].line = "PRINT A--2*(A<2)"
  /\ calls[1].result.ok
  /\ calls[1].result.node.expressions
       = <<[type |-> "BINARY", operator |-> "-",
            left |-> [type |-> "VARIABLE", name |-> "A"],
            right |-> [type |-> "BINARY", operator |-> "*",
                       left |-> [type |-> "UNARY", operator |-> "-",
                                 operand |-> [type |-> "NUMBER", value |-> IntV(2)]],
                       right |-> [type |-> "BINARY", operator |-> "<",
                                  left |-> [type |-> "VARIABLE", name |-> "A"],
                                  right |-> [type |-> "NUMBER", value |-> IntV(2)]]]]>>

\* the types and values of a token sequence
TypesAndValues(tokens) ==
  [k \in 1..Len(tokens) |-> [type |-> tokens[k].type, value |-> tokens[k].value]]

\* C23: tokenize returns the tokens in source order, a token that starts at
\* a digit is a NUMBER, at a quote a STRING, at a letter a KEYWORD when the
\* upper-cased word is a keyword and an IDENTIFIER otherwise, `<>`, `<=` and
\* `>=` are one OPERATOR token each, and `10 PRINT "HI";A` gives NUMBER 10,
\* KEYWORD PRINT, STRING HI, PUNCTUATION ;, IDENTIFIER A, EOL
C23_TokensClassified ==
  \A i \in 1..Len(calls) :
    calls[i].result.ok =>
      LET source == Trim(calls[i].line)
          tokens == calls[i].result.tokens
      IN  /\ \A k \in 1..(Len(tokens) - 1) :
                /\ tokens[k].position < tokens[k + 1].position
                /\ tokens[k].position < Len(source)
                /\ LET c == CharAt(source, tokens[k].position)
                       two == Substring(source, tokens[k].position, tokens[k].position + 2)
                   IN  /\ ~IsSpace(c)
                       /\ (tokens[k].type = "NUMBER") = IsDigit(c)
                       /\ (tokens[k].type = "STRING") = (c = "\"")
                       /\ (tokens[k].type \in {"KEYWORD", "IDENTIFIER"}) = IsLetter(c)
                       /\ IsLetter(c) =>
                            /\ (tokens[k].type = "KEYWORD") = (tokens[k].value.s \in KEYWORDS)
                            /\ tokens[k].value.s
                                 = ToUpperCase(Substring(source, tokens[k].position,
                                                         tokens[k].position + Len(tokens[k].value.s)))
                            /\ LET after == CharAt(source, tokens[k].position + Len(tokens[k].value.s))
                               IN  ~(IsLetter(after) \/ IsDigit(after) \/ after = "$")
                       /\ two \in {"<>", "<=", ">="} =>
                            /\ tokens[k].type = "OPERATOR"
                            /\ tokens[k].value = StrV(two)
          /\ calls[i].line = "10 PRINT \"HI\";A" =>
               TypesAndValues(tokens)
                 = <<[type |-> "NUMBER", value |-> IntV(10)],
                     [type |-> "KEYWORD", value |-> StrV("PRINT")],
                     [type |-> "STRING", value |-> StrV("HI")],
                     [type |-> "PUNCTUATION", value |-> StrV(";")],
                     [type |-> "IDENTIFIER", value |-> StrV("A")],
                     [type |-> "EOL", value |-> Null]>>

C23_Witness ==
  /\ Len(calls) = 3
  /\ calls[1].line = "10 PRINT \"HI\";A" /\ Len(calls[1].result.tokens) = 6
  /\ calls[2].line = "A<=B"
  /\ TypesAndValues(calls[2].result.tokens)
       = <<[type |-> "IDENTIFIER", value |-> StrV("A")],
           [type |-> "OPERATOR", value |-> StrV("<=")],
           [type |-> "IDENTIFIER", value |-> StrV("B")],
           [type |-> "EOL", value |-> Null]>>
  /\ calls[3].line = "print a"
  /\ TypesAndValues(calls[3].result.tokens)
       = <<[type |-> "KEYWORD", value |-> StrV("PRINT")],
           [type |-> "IDENTIFIER", value |-> StrV("A")],
           [type |-> "EOL", value |-> Null]>>

\* C26: every token sequence tokenize returns holds exactly one EOL token,
\* and that token is its last element
C26_OneEndOfLine ==
  \A i \in 1..Len(calls) :
    calls[i].result.ok =>
      /\ calls[i].result.tokens # <<>>
      /\ {k \in 1..Len(calls[i].result.tokens) : calls[i].result.tokens[k].type = "EOL"}
           = {Len(calls[i].result.tokens)}

C26_Witness ==
  /\ Len(calls) = 2
  /\ calls[1].line = "" /\ calls[1].result.ok /\ Len(calls[1].result.tokens) = 1
  /\ calls[2].line = "IF A<B THEN 20" /\ calls[2].result.ok
  /\ Len(calls[2].result.tokens) = 7
  /\ calls[2].result.tokens[7] = [type |-> "EOL", value |-> Null, position |-> 14]

RECURSIVE Pieces(_)
Pieces(line) ==
  IF Len(line) <= COLS THEN <<line>>
  ELSE <<SubSeq(line, 1, COLS)>> \o Pieces(SubSeq(line, COLS + 1, Len(line)))

\* the rows a text takes: its lines, each cut at the screen width
RECURSIVE ScreenRows(_)
ScreenRows(str) ==
  IF StrIndexOf(str, "\n") < 0 THEN Pieces(str)
  ELSE Pieces(Substring(str, 0, StrIndexOf(str, "\n")))
       \o ScreenRows(SubSeq(str, StrIndexOf(str, "\n") + 2, Len(str)))

\* the grid shows the rows from row off + 1 on, blank rows below them, and
\* the cursor is at the end of the last row
Shows(d, rows, off) ==
  /\ Len(d.buffer) = ROWS
  /\ \A r \in 1..ROWS :
       d.buffer[r] = IF r + off <= Len(rows)
                       THEN rows[r + off] \o Repeat(" ", COLS - Len(rows[r + off]))
                       ELSE BlankRow
  /\ d.cursorY = Len(rows) - off - 1
  /\ d.cursorX = Len(rows[Len(rows)])

\* the rows that do not fit on the screen
Overflow(rows) == IF Len(rows) > ROWS THEN Len(rows) - ROWS ELSE 0

\* the rows above the cursor followed by the rows that the cursor row's text
\* and the printed text take
RowsWith(d, str) ==
  SubSeq(d.buffer, 1, d.cursorY)
  \o ScreenRows(SubSeq(d.buffer[d.cursorY + 1], 1, d.cursorX) \o str)

Scrolled(rows, after) ==
  /\ Shows(after, rows, Overflow(rows))
  /\ after.cursorY <= ROWS - 1
  /\ Len(rows) > ROWS => after.cursorY = ROWS - 1

\* C24: a print or println call leaves the grid moved up by exactly one row
\* for every row of output that does not fit: the rows off the top are gone,
\* the rows that moved keep their content, the rows below the output are
\* blank, and the cursor is on the row of the last output, which is row
\* ROWS-1 whenever the grid moved
C24_ScrollsOneRowPerOverflow ==
  [][\A text \in ScreenTexts :
       /\ ScreenPrint(text) => Scrolled(RowsWith(display, text), display')
       /\ ScreenPrintln(text) =>
            Scrolled(RowsWith(display, text \o "\n"), display')]_vars

\* a listing, a wide line and a second listing have been printed: 45 line
\* breaks and one wrap, 23 rows scrolled off
C24_Witness ==
  /\ calls = <<[line |-> Listing(1, ROWS - 2), result |-> "print"],
               [line |-> Repeat("W", COLS + 1), result |-> "println"],
               [line |-> Listing(1, ROWS - 2), result |-> "print"]>>
  /\ display.cursorY = ROWS - 1
  /\ display.cursorX = 0
  /\ display.buffer[1] = "W" \o Repeat(" ", COLS - 1)
  /\ display.buffer[2] = "L1" \o Repeat(" ", COLS - 2)
  /\ display.buffer[ROWS - 1] = "L22" \o Repeat(" ", COLS - 3)
  /\ display.buffer[ROWS] = BlankRow

\* C25: while the input line getInput opened is open, a printable key
\* appends its upper-cased character to the accumulator, Backspace removes
\* the accumulator's last character and does nothing when it is empty, and
\* Enter resolves the promise, once, with exactly the accumulated text,
\* empties the accumulator and leaves input mode
C25_KeysAccumulate ==
  [][\A key \in Keys :
       (KeyDown(key) /\ screen.inputMode /\ screen.inputResolve # 0) =>
         IF key = "Enter"
           THEN /\ calls' = Append(calls, [line |-> screen.inputBuffer,
                                           result |-> screen.inputResolve])
                /\ requests'[screen.inputResolve].resolved = 1
                /\ screen'.inputBuffer = ""
                /\ ~screen'.inputMode
         ELSE /\ calls' = calls /\ requests' = requests
              /\ screen'.inputMode
              /\ screen'.inputBuffer
                   = IF key = "Backspace"
                       THEN SubSeq(screen.inputBuffer, 1, Len(screen.inputBuffer) - 1)
                     ELSE IF key = "a" THEN screen.inputBuffer \o "A"
                     ELSE IF key = "B" THEN screen.inputBuffer \o "B"
                     ELSE screen.inputBuffer]_vars

\* `a`, `B`, Backspace, `a`, Enter after the second getInput: the promise is
\* resolved with AA, the first was resolved with the empty line
C25_Witness ==
  /\ calls = <<[line |-> "", result |-> 1], [line |-> "AA", result |-> 2]>>
  /\ requests = <<[by |-> "caller", resolved |-> 1], [by |-> "caller", resolved |-> 1]>>
  /\ screen = [container |-> TRUE, inputMode |-> FALSE, inputBuffer |-> "", inputResolve |-> 0]

\* the frame on top of the loop stack, and that loop's variable plus its step
TopLoop == forStack[Len(forStack)]
Stepped == [t |-> "num",
            n |-> variables[TopLoop.variable].n * TopLoop.stepValue.d
                  + TopLoop.stepValue.n * variables[TopLoop.variable].d,
            d |-> variables[TopLoop.variable].d * TopLoop.stepValue.d]

\* the stepped value is within the limit, inclusively, in the step's direction
WithinLimit ==
  \/ TopLoop.stepValue.n > 0 /\ Stepped.n * TopLoop.endValue.d <= TopLoop.endValue.n * Stepped.d
  \/ TopLoop.stepValue.n < 0 /\ Stepped.n * TopLoop.endValue.d >= TopLoop.endValue.n * Stepped.d

\* a NEXT statement that does not fail: a loop is open and the statement
\* names no other variable than the loop's
NextPasses(node) ==
  /\ node.type = "NEXT"
  /\ forStack # <<>>
  /\ node.variable = Null \/ node.variable.s = TopLoop.variable

\* the stored line the RUN driver executes next
RunLine == frames[Len(frames)].lines[frames[Len(frames)].i + 1]

RunsNextStatement ==
  /\ pc = "run" /\ Has(program, RunLine) /\ NextPasses(program[RunLine].ast)
  /\ RunIteration

\* C28: a NEXT that does not fail compares the loop variable plus the step
\* with the top frame's limit, inclusively and in the step's direction;
\* within the limit it leaves the frame on the stack and makes the frame's
\* line the jump target (the line RUN executes next), beyond the limit it
\* pops that one frame, sets no jump target, and RUN goes on with the line
\* that follows
C28_NextJumpsOrPops ==
  [][/\ \A line \in LoopLines :
          (ExecuteImmediate(line) /\ NextPasses(Parsed[line].node)) =>
            IF WithinLimit
              THEN forStack' = forStack /\ nextLine' = TopLoop.bodyStart
              ELSE forStack' = SubSeq(forStack, 1, Len(forStack) - 1) /\ nextLine' = nextLine
     /\ RunsNextStatement =>
          IF WithinLimit
            THEN /\ forStack' = forStack
                 /\ pc' = "run"
                 /\ frames'[Len(frames')].lines[frames'[Len(frames')].i + 1] = TopLoop.bodyStart
            ELSE /\ forStack' = SubSeq(forStack, 1, Len(forStack) - 1)
                 /\ nextLine' = Undefined
                 /\ ~err'
                 /\ IF frames[Len(frames)].i + 1 < Len(frames[Len(frames)].lines)
                      THEN pc' = "run" /\ frames'[Len(frames')].i = frames[Len(frames)].i + 1
                      ELSE pc' = "idle" /\ ~running']_vars

\* RUN of `10 FOR I=1 TO 1`, `20 NEXT I`, `30 PRINT I`: the NEXT has popped
\* the frame and line 30 is the next to run
C28_Witness ==
  /\ pc = "run" /\ trace = <<IntV(10), IntV(20)>>
  /\ forStack = <<>> /\ nextLine = Undefined
  /\ Has(program, IntV(30)) /\ RunLine = IntV(30)
  /\ program[IntV(10)].source = "10 FOR I=1 TO 1"

\* the loop variable holds its old value plus the step
Advances ==
  /\ Has(variables', TopLoop.variable)
  /\ variables'[TopLoop.variable].t = "num"
  /\ variables'[TopLoop.variable].n * Stepped.d = Stepped.n * variables'[TopLoop.variable].d

\* C29: every NEXT that does not fail leaves the loop variable advanced by
\* the frame's step, the NEXT that finds the new value beyond the limit and
\* pops the frame included
C29_NextAlwaysAdvances ==
  [][/\ \A line \in LoopLines :
          (ExecuteImmediate(line) /\ NextPasses(Parsed[line].node)) => Advances
     /\ RunsNextStatement => Advances]_vars

\* the statement is END, or an IF with a truthy condition whose then-branch is END
Ends(node) ==
  \/ node.type = "END"
  \/ /\ node.type = "IF"
     /\ node.thenStatement.type = "END"
     /\ evaluate(node.condition, variables).ok
     /\ JsTruthy(evaluate(node.condition, variables).value)

\* C30: when the RUN driver executes END, directly or as the then-branch of
\* an IF with a truthy condition, it executes no further stored line, and
\* the run is over with the running flag cleared and no error message
C30_EndStopsRun ==
  [][(pc = "run" /\ Has(program, RunLine) /\ Ends(program[RunLine].ast) /\ RunIteration) =>
       /\ pc' = "idle" /\ frames' = <<>>
       /\ ~running'
       /\ ~err'
       /\ out' = out
       /\ trace' = Append(trace, RunLine)]_vars

\* the then-branch of every IF line, as a statement of its own; a bare line
\* number n stands for GOTO n
ThenBranch ==
  [line \in {"IF 1 THEN PRINT 1", "IF 0 THEN PRINT 1", "IF 0-1 THEN 99", "IF A THEN 40",
             "IF A<1 THEN 99", "20 IF A THEN 40", "20 IF A<1 THEN 99"} |->
     CASE line \in {"IF 1 THEN PRINT 1", "IF 0 THEN PRINT 1"} -> "PRINT 1"
       [] line \in {"IF A THEN 40", "20 IF A THEN 40"} -> "GOTO 40"
       [] OTHER -> "GOTO 99"]

\* the value is a number other than zero
NonZero(v) == v.t = "num" /\ v.n # 0

\* the condition of an IF statement in the current variables
Condition(node) == evaluate(node.condition, variables)

\* C31: an IF whose condition is a non-zero number does exactly what its
\* then-branch does as a statement of its own, a bare line number n being
\* GOTO n (an undefined n fails with ?UNDEF'D STATEMENT ERROR); an IF whose
\* condition is zero prints nothing, fails with nothing, sets no jump target
\* and changes no variable the condition did not read: in a RUN it does what
\* a REM on its line does
C31_IfRunsThenBranch ==
  [][/\ \A line \in DOMAIN ThenBranch :
          (Parsed[line].node.type = "IF" /\ ExecuteImmediate(line)) =>
            IF NonZero(Condition(Parsed[line].node).value)
              THEN Becomes(executeImmediate(
                     [M EXCEPT !.st.out = <<>>, !.trace = <<>>, !.err = FALSE,
                               !.st.variables = Condition(Parsed[line].node).variables],
                     ThenBranch[line]))
              ELSE /\ variables' = Condition(Parsed[line].node).variables
                   /\ out' = <<>> /\ ~err' /\ pc' = "idle"
                   /\ UNCHANGED <<program, forStack, nextLine, running, currentLine>>
     /\ (/\ pc = "run" /\ Has(program, RunLine)
         /\ program[RunLine].ast.type = "IF"
         /\ RunIteration) =>
          IF NonZero(Condition(program[RunLine].ast).value)
            THEN Becomes([runIteration(
                   [M EXCEPT !.st.variables = Condition(program[RunLine].ast).variables,
                             !.st.program[RunLine].ast
                               = Parsed[ThenBranch[program[RunLine].source]].node])
                          EXCEPT !.st.program = program])
            ELSE Becomes([runIteration(
                   [M EXCEPT !.st.variables = Condition(program[RunLine].ast).variables,
                             !.st.program[RunLine].ast = [type |-> "REM"]])
                          EXCEPT !.st.program = program])]_vars

\* a RUN in which the IF of line 20 found A non-zero and jumped over line 30
C31_Witness ==
  /\ trace = <<IntV(10), IntV(20), IntV(40)>>
  /\ Has(program, IntV(30))
  /\ program[IntV(20)].source = "20 IF A THEN 40"
  /\ ~err

\* the suspended calls of the REPL: its showPrompt, or the INPUT of its line
ReplCalls == {i \in 1..Len(waiting) : waiting[i].task = "repl"}

\* C32: once the playground is open the REPL is at exactly one place: it
\* executes a line, or it awaits the INPUT of that line, or it awaits
\* showPrompt for the next one; and what it awaits is the promise the next
\* Enter on the screen resolves, so the loop goes on to accept another line
C32_ReplOneLineAtATime ==
  screen.container =>
    /\ Cardinality(ReplCalls) + (IF who = "repl" THEN 1 ELSE 0) = 1
    /\ \A i \in ReplCalls :
         /\ screen.inputMode
         /\ screen.inputResolve = waiting[i].req

\* C33: from init on the buffer has ROWS rows of COLS cells each, the
\* cursor row is one of the rows and the cursor column is at most COLS;
\* the column is COLS only when the last cell of the cursor row was written
\* (no text written here ends a row with a blank)
C33_BufferAndCursorInRange ==
  display # NoDisplay =>
    /\ Len(display.buffer) = ROWS
    /\ \A row \in 1..ROWS : Len(display.buffer[row]) = COLS
    /\ display.cursorY \in 0..(ROWS - 1)
    /\ display.cursorX \in 0..COLS
    /\ display.cursorX = COLS =>
         SubSeq(display.buffer[display.cursorY + 1], COLS, COLS) # " "

\* a listing ran down to the last row and a text filled that row; an input
\* line was then opened and a key typed: the cursor waits behind the last cell
C33_Witness ==
  /\ display # NoDisplay
  /\ screen.inputMode /\ screen.inputBuffer = "A"
  /\ display.cursorX = COLS /\ display.cursorY = ROWS - 1
  /\ display.buffer[1] = "L1" \o Repeat(" ", COLS - 2)
  /\ display.buffer[ROWS] = Repeat("W", COLS)

\* C39: a key pressed while no input line is open changes nothing of the
\* screen; a printable key or Backspace on an open input line changes the
\* input accumulator and nothing else; Enter closes the line, empties the
\* accumulator, hands the line to the pending promise and moves the cursor
\* to the start of the next row, the rows moving up by one when the cursor
\* was on the last row: no cell of the grid receives a typed character
C39_KeysLeaveGrid ==
  [][\A key \in DisplayKeys : KeyDown(key) =>
       IF ~(screen.container /\ screen.inputMode)
         THEN display' = display /\ screen' = screen
       ELSE IF key # "Enter"
         THEN /\ display' = display
              /\ screen' = [screen EXCEPT !.inputBuffer = screen'.inputBuffer]
       ELSE /\ screen' = [screen EXCEPT !.inputMode = FALSE, !.inputBuffer = "",
                                        !.inputResolve = 0]
            /\ display'.cursorX = 0
            /\ IF display.cursorY < ROWS - 1
                 THEN /\ display'.cursorY = display.cursorY + 1
                      /\ display'.buffer = display.buffer
                 ELSE /\ display'.cursorY = ROWS - 1
                      /\ display'.buffer = Append(Tail(display.buffer), BlankRow)]_vars

\* the line A was entered behind a prompt on the last row: the rows moved up
\* by one and the row of the prompt holds the prompt alone
C39_Witness ==
  /\ display # NoDisplay /\ ~screen.inputMode
  /\ Len(calls) = 2 /\ calls[2] = [line |-> "A", result |-> 1]
  /\ display.cursorX = 0 /\ display.cursorY = ROWS - 1
  /\ display.buffer[1] = "L2" \o Repeat(" ", COLS - 2)
  /\ display.buffer[ROWS - 1] = "? " \o Repeat(" ", COLS - 2)
  /\ display.buffer[ROWS] = BlankRow

\* each capture wrapper pushes the text on capturedOutput and then calls the
\* callback it wraps: a text written through cb is recorded once per wrapper
\* and reaches the registered callback, if there is one, once
TimesRecorded(cb) == cb.wraps
TimesForwarded(cb) == IF cb.base = "null" THEN 0 ELSE 1

\* the texts among the writes of a call: print and println
Texts(written) == SelectSeq(written, LAMBDA w : w.op \in {"print", "println"})

\* C34: every text the interpreter writes in the execution Run & Check
\* starts is recorded in capturedOutput exactly once, and is forwarded
\* exactly once to the callback registered before the capture, if any
C34_CapturedOnce ==
  [][(RunAndCheck /\ Texts(out') # <<>>) =>
       /\ validator'.isCapturing
       /\ TimesRecorded(callbacks'.output) = 1
       /\ callbacks.output.base # "null" => TimesForwarded(callbacks'.output) = 1]_vars

\* the RUN driver executes a stored FOR statement
RunsFor ==
  /\ pc = "run" /\ Has(program, RunLine) /\ program[RunLine].ast.type = "FOR"
  /\ RunIteration

\* the step ends as a RUN iteration over a REM on the line ends, with the
\* variables and the loop stack the step has made: the statement of the
\* line sets no jump target of its own
FallsThrough ==
  Becomes([runIteration([M EXCEPT !.st.program[RunLine].ast = [type |-> "REM"]])
             EXCEPT !.st.program = program,
                    !.st.variables = variables',
                    !.st.forStack = forStack'])

\* C38: a FOR that RUN executes binds the loop variable to the start value
\* and opens one loop whatever the start, the limit and the step are, and RUN
\* goes on as it does after a statement that does not jump, with the line
\* after the FOR when nothing else made a jump pending; a NEXT whose loop
\* steps by zero closes the loop, leaves the variables as they are and sets
\* no jump target
C38_ForRunsBodyStepZeroEnds ==
  [][/\ RunsFor =>
          /\ Len(forStack') = Len(forStack) + 1
          /\ forStack'[Len(forStack')].variable = program[RunLine].ast.variable
          /\ variables'[program[RunLine].ast.variable]
               = evaluate(program[RunLine].ast.start, variables).value
          /\ FallsThrough
          /\ (nextLine = Undefined /\ frames[Len(frames)].i + 1 < Len(frames[Len(frames)].lines)) =>
               /\ pc' = "run"
               /\ frames'[Len(frames')].i = frames[Len(frames)].i + 1
     /\ \A line \in ForLines :
          (/\ ExecuteImmediate(line) /\ NextPasses(Parsed[line].node)
           /\ TopLoop.stepValue.n = 0) =>
            /\ forStack' = SubSeq(forStack, 1, Len(forStack) - 1)
            /\ variables' = variables /\ nextLine' = nextLine /\ ~err'
     /\ (RunsNextStatement /\ TopLoop.stepValue.n = 0) =>
          /\ forStack' = SubSeq(forStack, 1, Len(forStack) - 1)
          /\ variables' = variables
          /\ FallsThrough]_vars

\* RUN of `10 FOR I=2 TO 1`, `20 PRINT I`, `30 NEXT I` has ended: line 20
\* printed 2 and the NEXT closed the loop
C38_Witness ==
  /\ pc = "idle" /\ ~running /\ ~err
  /\ trace = <<IntV(10), IntV(20), IntV(30)>>
  /\ program[IntV(10)].source = "10 FOR I=2 TO 1"
  /\ out = <<Println("2")>>
  /\ forStack = <<>>

\* the statement on line `key` is no NEXT and no RUN, and a jump in it, as a
\* GOTO or as the then-branch of an IF, goes to a higher line number
RECURSIVE JumpsForward(_, _)
JumpsForward(node, key) ==
  CASE node.type \in {"NEXT", "RUN"} -> FALSE
    [] node.type = "GOTO" -> NumLess(key, node.lineNumber)
    [] node.type = "IF" -> JumpsForward(node.thenStatement, key)
    [] OTHER -> TRUE

ForwardOnly == \A key \in DOMAIN program : JumpsForward(program[key].ast, key)

\* C37: a RUN in progress over a program without NEXT and RUN whose jumps
\* all go to higher line numbers comes to its end, the running flag cleared,
\* when every INPUT it issues is answered
C37_ForwardRunTerminates ==
  [](((Len(frames) > 0) /\ ForwardOnly) => <>(Len(frames) = 0 /\ pc = "idle" /\ ~running))

\* RUN of `10 INPUT A`, `20 IF A THEN 30`, `30 PRINT 1` has ended after its
\* INPUT was answered
C37_Witness ==
  /\ pc = "idle" /\ ~running /\ ~err /\ Len(frames) = 0
  /\ trace = <<IntV(10), IntV(20), IntV(30)>>
  /\ program[IntV(10)].source = "10 INPUT A"
  /\ program[IntV(20)].source = "20 IF A THEN 30"
  /\ ForwardOnly
  /\ out = <<[op |-> "input", text |-> "? "], Println("1")>>

\* the lesson at the 0-based index is one of the lessons and is completed
CompletedAt(index) ==
  /\ index \in 0..(Len(engine.lessons) - 1)
  /\ StatusOf(engine.lessonStatus, engine.lessons[index + 1]) = "completed"

\* a navigation call to `target` has returned: true only for a lesson of the
\* list that is the first or follows a completed one, which is then the
\* current lesson; false with the current lesson index as it was
Navigated(target) ==
  IF engine'.returned
    THEN /\ target \in 0..(Len(engine.lessons) - 1)
         /\ target = 0 \/ CompletedAt(target - 1)
         /\ engine'.currentLessonIndex = target
    ELSE engine'.currentLessonIndex = engine.currentLessonIndex

\* C35: goToLesson(i) and nextLesson() return true only when the target is
\* the first lesson or the lesson before it is completed, and make it the
\* current lesson; otherwise they return false and leave the current lesson
\* index unchanged
C35_LinearProgression ==
  [][/\ \A index \in Indexes : GoToLesson(index) => Navigated(index)
     /\ NextLesson => Navigated(engine.currentLessonIndex + 1)]_vars

\* lesson 1 is completed and lesson 2 is current and not completed: the call
\* that asked for lesson 3 returned false
C35_Witness ==
  /\ engine.isLoaded /\ engine.eventId = "apple-ii"
  /\ engine.lessons = Tutorials["apple-ii"]
  /\ engine.currentLessonIndex = 1
  /\ CompletedAt(0) /\ ~CompletedAt(1)
  /\ ~engine.returned

\* C36: getCompletionPercentage returns a value between 0 and 100 and
\* getCompletedCount does not exceed getTotalCount, whatever init,
\* completeCurrentLesson, navigation and reset calls were made
C36_CountsWithinTotal ==
  /\ getCompletionPercentage(engine) \in 0..100
  /\ getCompletedCount(engine) <= getTotalCount(engine)

\* the entries of the event's lessonsCompleted that hold the lesson
Recorded(lessonId) ==
  {k \in 1..Len(progress[engine.eventId]) : progress[engine.eventId][k] = lessonId}

\* C40: after one init that found no saved progress and loaded a lesson list
\* that is not empty, the completed lessons are a prefix of the list, the
\* current lesson is the first or follows a completed one, and each
\* completed lesson is in the event's lessonsCompleted exactly once
C40_PrefixCompleted ==
  (engine.inits = 1 /\ engine.isLoaded /\ engine.lessons # <<>>) =>
    /\ \A i \in 0..(Len(engine.lessons) - 1) :
         CompletedAt(i) => \A j \in 0..(i - 1) : CompletedAt(j)
    /\ engine.currentLessonIndex \in 0..(Len(engine.lessons) - 1)
    /\ engine.currentLessonIndex = 0 \/ CompletedAt(engine.currentLessonIndex - 1)
    /\ \A i \in 0..(Len(engine.lessons) - 1) :
         CompletedAt(i) => Cardinality(Recorded(engine.lessons[i + 1])) = 1

\* after the one init, lessons 1 and 2 were completed and lesson 3 is current
C40_Witness ==
  /\ engine.inits = 1 /\ engine.isLoaded /\ engine.eventId = "apple-ii"
  /\ engine.currentLessonIndex = 2
  /\ CompletedAt(0) /\ CompletedAt(1) /\ ~CompletedAt(2)
  /\ progress["apple-ii"] = <<"lesson-1", "lesson-2">>

=============================================================================
